---- MODULE Spec2Model ----
(***************************************************************************)
(* Bearer-token validation engine of go-service-kit (pkg/auth/auth.go):    *)
(* JWTValidator.ValidateRequest with its revocation map, validation cache, *)
(* claim checks and the Middleware / Protect wrappers.                     *)
(*                                                                         *)
(* Time is a discrete clock `now` (Unix seconds, scaled).  Durations of    *)
(* the program are scaled to clock ticks keeping their order:              *)
(*   5 minutes iat skew  <  cache TTL  <  24 hours revocation retention.   *)
(* Strings are sequences of one-character strings, so that prefix,         *)
(* substring and field splitting are computed, not assumed.                *)
(***************************************************************************)
EXTENDS Integers, Sequences, FiniteSets, TLC

\* ------------------------------------------------------------------ bounds
\* Last clock value the model lets time reach.
MaxTime == 5
\* Longest free word appended to an audience string in SpecClaims.
MaxAudLen == 2
\* Longest scp string in SpecClaims.
MaxScpLen == 4

\* ------------------------------------------------- program constants (ticks)
\* 24*time.Hour, the retention of a revocation record.
RevocationRetention == 3
\* config.CacheTTL, the lifetime of a cache entry.
cacheTTL == 2
\* 5*time.Minute, the tolerated clock skew of iat.
IatSkew == 1

\* ----------------------------------------------------------------- strings
S_api == <<"a", "p", "i", ":", "/", "/">>
S_svc == <<"s", "v", "c">>
S_read == <<"r", "d">>
S_bearer == <<"b", "e", "a", "r", "e", "r">>

\* strings.HasPrefix
HasPrefix(s, prefix) ==
  Len(s) >= Len(prefix) /\ SubSeq(s, 1, Len(prefix)) = prefix

\* strings.TrimPrefix: s without the leading prefix, once; s if it has none.
TrimPrefix(s, prefix) ==
  IF HasPrefix(s, prefix) THEN SubSeq(s, Len(prefix) + 1, Len(s)) ELSE s

\* A plausible slip: prefix match instead of substring match.
ContainsAtStart(s, substr) == HasPrefix(s, substr)

\* strings.Contains: some window of s of length len(substr) equals substr.
Contains(s, substr) ==
  \E i \in 0..(Len(s) - Len(substr)) : SubSeq(s, i + 1, i + Len(substr)) = substr

\* ------------------------------------------------------ dynamically typed claims
\* A decoded JSON value: its Go dynamic type and its payload.
Str(s) == [t |-> "string", s |-> s, n |-> 0]
Num(n) == [t |-> "float64", s |-> <<>>, n |-> n]
Arr(s) == [t |-> "array", s |-> s, n |-> 0]

\* jwt.MapClaims(nil) / an empty claim set.
NilClaims == [c \in {} |-> Str(<<>>)]

Has(claims, name) == name \in DOMAIN claims
IsFloat(claims, name) == Has(claims, name) /\ claims[name].t = "float64"

\* ------------------------------------------------------------ claim validation
\* error values: Nil is a nil error, Panic a run-time panic of the goroutine.
Nil == "nil"
Panic == "panic"

\* A plausible slip: iat is compared with now, without the skew tolerance.
validateTimeClaimsNoSkew(claims, t) ==
  IF IsFloat(claims, "exp") /\ claims["exp"].n < t
    THEN "token has expired"
  ELSE IF IsFloat(claims, "iat") /\ claims["iat"].n > t
    THEN "token issued in the future"
  ELSE IF IsFloat(claims, "nbf") /\ claims["nbf"].n > t
    THEN "token not yet valid"
  ELSE Nil

\* validateTimeClaims: only float64 values are examined.
validateTimeClaims(claims, t) ==
  IF IsFloat(claims, "exp") /\ claims["exp"].n < t
    THEN "token has expired"
  ELSE IF IsFloat(claims, "iat") /\ claims["iat"].n > t + IatSkew
    THEN "token issued in the future"
  ELSE IF IsFloat(claims, "nbf") /\ claims["nbf"].n > t
    THEN "token not yet valid"
  ELSE Nil

\* A plausible slip: the audience is compared without stripping "api://".
validateAudienceNoTrim(claims, cid) ==
  IF Has(claims, "aud")
  THEN IF claims["aud"].t # "string" THEN Panic
       ELSE IF claims["aud"].s # cid THEN "invalid audience" ELSE Nil
  ELSE "missing audience claim"

\* validateAudience: aud.(string) panics on any other dynamic type.
validateAudience(claims, cid) ==
  IF Has(claims, "aud")
  THEN IF claims["aud"].t # "string" THEN Panic
       ELSE IF TrimPrefix(claims["aud"].s, S_api) # cid
            THEN "invalid audience"
            ELSE Nil
  ELSE "missing audience claim"

\* validateScope: scp.(string) panics on any other dynamic type.
validateScope(claims, scp) ==
  IF scp = <<>> THEN Nil
  ELSE IF Has(claims, "scp")
  THEN IF claims["scp"].t # "string" THEN Panic
       ELSE IF ~Contains(claims["scp"].s, scp)
            THEN "insufficient scope"
            ELSE Nil
  ELSE "missing scope claim"

\* validateClaims: time, then audience, then scope; the first error wins.
validateClaims(claims, cid, scp, t) ==
  LET e1 == validateTimeClaims(claims, t)
      e2 == validateAudience(claims, cid)
      e3 == validateScope(claims, scp)
  IN  IF e1 # Nil THEN e1 ELSE IF e2 # Nil THEN e2 ELSE e3

\* ---------------------------------------------------------------- configuration
clientID == S_svc
scope == S_read
\* A Go []string as the parser sees it: the nil slice, or a slice with elements v.
NilSlice == [isNil |-> TRUE, v |-> {}]
Slice(S) == [isNil |-> FALSE, v |-> S]

\* v.allowedAlgs of the validator of Spec and SpecSeq: DefaultJWTConfig().AllowedAlgs
allowedAlgs == Slice({"RS256", "RS384", "RS512", "ES256", "ES384", "ES512"})

\* ------------------------------------------------------------------ the tokens
\* A raw token string; what it decodes to is given by Decode.
T(x) == <<"t", x>>

\* A time no run of the model reaches.
FarFuture == MaxTime + IatSkew + 3

GoodAud == "aud" :> Str(S_api \o S_svc)
GoodScp == "scp" :> Str(S_read \o <<" ", "w", "r">>)

Jws(alg, kid, sigOK, claims) ==
  [wellFormed |-> TRUE, alg |-> alg, kid |-> kid, sigOK |-> sigOK, claims |-> claims]

\* The decoded header, signature status and body of each raw token.
Decode(tok) ==
  CASE tok = T("1") -> Jws("RS256", "k1", TRUE,
                           GoodAud @@ GoodScp @@ ("exp" :> Num(2)) @@ ("iat" :> Num(1))
                             @@ ("nbf" :> Num(1)) @@ ("sub" :> Str(<<"u">>)))
    [] tok = T("2") -> Jws("ES256", "k1", TRUE,
                           ("aud" :> Str(S_svc)) @@ ("scp" :> Str(S_read)) @@ ("iat" :> Num(1)))
    [] tok = T("3") -> Jws("RS256", "k1", TRUE, GoodAud @@ GoodScp @@ ("exp" :> Num(0)))
    [] tok = T("4") -> Jws("RS256", "k1", TRUE,
                           GoodAud @@ GoodScp @@ ("exp" :> Num(FarFuture)) @@ ("nbf" :> Num(FarFuture)))
    [] tok = T("5") -> Jws("RS256", "k1", TRUE,
                           GoodAud @@ GoodScp @@ ("exp" :> Num(FarFuture)) @@ ("iat" :> Num(FarFuture)))
    [] tok = T("6") -> Jws("RS256", "k1", TRUE,
                           ("aud" :> Str(S_api \o <<"s", "v">>)) @@ GoodScp @@ ("exp" :> Num(FarFuture)))
    [] tok = T("7") -> Jws("RS256", "k1", TRUE,
                           ("aud" :> Arr(S_svc)) @@ GoodScp @@ ("exp" :> Num(FarFuture)))
    [] tok = T("8") -> Jws("RS256", "k1", TRUE,
                           GoodAud @@ ("scp" :> Num(1)) @@ ("exp" :> Num(FarFuture)))
    [] tok = T("9") -> Jws("RS256", "k1", TRUE,
                           GoodAud @@ GoodScp @@ ("exp" :> Str(<<"x">>)))
    [] tok = T("a") -> Jws("RS256", "k1", FALSE, GoodAud @@ GoodScp)
    [] tok = T("b") -> Jws("HS256", "k1", TRUE, GoodAud @@ GoodScp)
    [] tok = T("c") -> Jws("RS256", "k9", TRUE, GoodAud @@ GoodScp)
    [] tok = T("e") -> Jws("RS256", "k1", TRUE, GoodScp @@ ("exp" :> Num(FarFuture)))
    [] tok = T("f") -> Jws("RS256", "k1", TRUE,
                           GoodAud @@ GoodScp @@ ("exp" :> Num(FarFuture)))
    [] OTHER -> [wellFormed |-> FALSE, alg |-> "", kid |-> "", sigOK |-> FALSE,
                 claims |-> NilClaims]

\* ------------------------------------------------------------------- jwt.Parse
\* jwt.Validator.Validate with the parser's defaults (golang-jwt/jwt v5.3.0):
\* exp and nbf are checked when present, a float64 0 counts as absent, any other
\* dynamic type is an error; iat, aud, iss and sub are not checked.
jwtValidate(claims, t) ==
  IF Has(claims, "exp") /\ ~IsFloat(claims, "exp") THEN "exp is invalid"
  ELSE IF IsFloat(claims, "exp") /\ claims["exp"].n # 0 /\ ~(t < claims["exp"].n)
    THEN "token is expired"
  ELSE IF Has(claims, "nbf") /\ ~IsFloat(claims, "nbf") THEN "nbf is invalid"
  ELSE IF IsFloat(claims, "nbf") /\ claims["nbf"].n # 0 /\ t < claims["nbf"].n
    THEN "token is not valid yet"
  ELSE Nil

\* jwt.Parse(tokenString, v.jwks.Keyfunc, jwt.WithValidMethods(v.allowedAlgs)):
\* structure, signing method, key resolution, signature, then the claims.
\* The signing method is tested only when the slice of valid methods is not
\* nil.  keyfunc tells whether the key resolver was called.
jwtParse(tok, keys, algs, t) ==
  LET tk == Decode(tok) IN
  IF ~tk.wellFormed THEN [err |-> "token is malformed", claims |-> NilClaims, keyfunc |-> FALSE]
  ELSE IF ~algs.isNil /\ tk.alg \notin algs.v
    THEN [err |-> "signing method is invalid", claims |-> NilClaims, keyfunc |-> FALSE]
  ELSE IF tk.kid \notin keys
    THEN [err |-> "token is unverifiable", claims |-> NilClaims, keyfunc |-> TRUE]
  ELSE IF ~tk.sigOK
    THEN [err |-> "token signature is invalid", claims |-> NilClaims, keyfunc |-> TRUE]
  ELSE [err |-> jwtValidate(tk.claims, t), claims |-> tk.claims, keyfunc |-> TRUE]

\* ---------------------------------------------------------------- extractToken
\* unicode.IsSpace, for the characters the model uses.
IsSpace(c) == c \in {" ", "\t"}

UpperCase == <<"A", "B", "E", "R", "S", "I", "C">>
LowerCase == <<"a", "b", "e", "r", "s", "i", "c">>

ToLowerChar(c) ==
  IF \E i \in 1..Len(UpperCase) : UpperCase[i] = c
  THEN LowerCase[CHOOSE i \in 1..Len(UpperCase) : UpperCase[i] = c]
  ELSE c

\* strings.ToLower
ToLower(s) == [i \in 1..Len(s) |-> ToLowerChar(s[i])]

RECURSIVE FieldsFrom(_, _, _, _)
FieldsFrom(s, i, cur, acc) ==
  IF i > Len(s)
  THEN IF cur = <<>> THEN acc ELSE Append(acc, cur)
  ELSE IF IsSpace(s[i])
  THEN FieldsFrom(s, i + 1, <<>>, IF cur = <<>> THEN acc ELSE Append(acc, cur))
  ELSE FieldsFrom(s, i + 1, Append(cur, s[i]), acc)

\* strings.Fields: the maximal runs of non-space characters, in order.
Fields(s) == FieldsFrom(s, 1, <<>>, <<>>)

\* A plausible slip: the scheme is compared as written, "Bearer" only.
extractTokenCaseSensitive(authHeader) ==
  IF authHeader = <<>> THEN <<>>
  ELSE LET parts == Fields(authHeader) IN
       IF Len(parts) # 2 \/ parts[1] # <<"B", "e", "a", "r", "e", "r">> THEN <<>> ELSE parts[2]

\* extractToken: the empty string stands for "no token".
extractToken(authHeader) ==
  IF authHeader = <<>> THEN <<>>
  ELSE LET parts == Fields(authHeader) IN
       IF Len(parts) # 2 \/ ToLower(parts[1]) # S_bearer THEN <<>> ELSE parts[2]

\* Authorization header values.
Bearer(tok) == <<"B", "e", "a", "r", "e", "r", " ">> \o tok
NoHeader == <<>>
BasicHeader == <<"B", "a", "s", "i", "c", " ", "c", "r">>
LoneBearer == <<"B", "e", "a", "r", "e", "r">>
SpacedBearer(tok) == <<"b", "E", "A", "R", "E", "R", " ", " ">> \o tok \o <<" ">>

\* ----------------------------------------------------------------------- state
Procs == {"p1", "p2"}
\* The goroutine that runs the calls of the sequential specification.
SeqProc == "p1"

VARIABLES
  now,              \* time.Now()
  jwksKeys,         \* the key ids v.jwks resolves at the moment
  revokedTokens,    \* v.revokedTokens: token -> time of revocation
  revokedMutex,     \* v.revokedMutex: [w: writer or "none", r: set of readers]
  tokenCache,       \* v.tokenCache: token -> CachedToken
  tokenCacheMutex,  \* v.tokenCacheMutex
  pc,               \* where each goroutine is in its call
  op,               \* the call each goroutine runs
  hdr,              \* the Authorization header of its request
  local,            \* its local variables
  result,           \* the ValidationResult its ValidateRequest returned
  resp,             \* what Middleware / Protect did with the request
  pre,              \* history: what held for its token when the call began
  lastRevoked,      \* history: token -> time written by the last completed RevokeToken
  cv,               \* input and output of a function of SpecClaims and SpecPure
  rl                \* the rate-limit middleware: its limiters, last request and response

vars == <<now, jwksKeys, revokedTokens, revokedMutex, tokenCache, tokenCacheMutex,
          pc, op, hdr, local, result, resp, pre, lastRevoked, cv, rl>>

None == "none"
\* The zero time.Time (IsZero) of a cache entry without exp.
ZeroTime == -1

ValidateOps == {"ValidateRequest", "Middleware", "Protect"}

NoEntry == [Claims |-> NilClaims, ExpiresAt |-> ZeroTime, Validated |-> ZeroTime]
NoResult == [Valid |-> FALSE, Claims |-> NilClaims, Error |-> <<>>, ErrorCode |-> "(none)"]
NoResp == [status |-> 0, contentType |-> "", wwwAuthenticate |-> <<>>,
           body |-> [error |-> <<>>, code |-> ""], nextCalled |-> FALSE,
           ctxClaims |-> NilClaims]
NoLocal == [tokenString |-> <<>>, exists |-> FALSE, revokedAt |-> ZeroTime, revoked |-> FALSE,
            cacheRead |-> FALSE, cached |-> NoEntry, keyfunc |-> FALSE, parsed |-> FALSE,
            claims |-> NilClaims]
NoPre == [revokedAt |-> ZeroTime, cached |-> NoEntry, lastRevoked |-> ZeroTime]
CvIdle == [fn |-> "none", clientID |-> <<>>, scope |-> <<>>, claims |-> NilClaims,
           out |-> "idle"]

Unlocked == [w |-> None, r |-> {}]

\* No rate-limit middleware is installed.
NoRateLimit == [variant |-> None]

Lookup(m, k, default) == IF k \in DOMAIN m THEN m[k] ELSE default
Store(m, k, v) == [x \in DOMAIN m \cup {k} |-> IF x = k THEN v ELSE m[x]]
Delete(m, k) == [x \in DOMAIN m \ {k} |-> m[x]]

Init ==
  /\ now = 1
  /\ jwksKeys = {"k1"}
  /\ revokedTokens = [x \in {} |-> 0]
  /\ revokedMutex = Unlocked
  /\ tokenCache = [x \in {} |-> NoEntry]
  /\ tokenCacheMutex = Unlocked
  /\ pc = [p \in Procs |-> "idle"]
  /\ op = [p \in Procs |-> None]
  /\ hdr = [p \in Procs |-> NoHeader]
  /\ local = [p \in Procs |-> NoLocal]
  /\ result = [p \in Procs |-> NoResult]
  /\ resp = [p \in Procs |-> NoResp]
  /\ pre = [p \in Procs |-> NoPre]
  /\ lastRevoked = [x \in {} |-> 0]
  /\ cv = CvIdle
  /\ rl = NoRateLimit

\* ------------------------------------------------------------- lock primitives
CanRLock(m) == m.w = None
CanLock(m) == m.w = None /\ m.r = {}
RLock(m, p) == [m EXCEPT !.r = @ \cup {p}]
RUnlock(m, p) == [m EXCEPT !.r = @ \ {p}]
Lock(m, p) == [m EXCEPT !.w = p]
Unlock(m) == [m EXCEPT !.w = None]

\* ------------------------------------------------------------ the cache helpers
\* A plausible slip: the TTL test is the wrong way round.
getCachedTokenTTLFlipped(cache, tok, t) ==
  IF tok \notin DOMAIN cache THEN NoEntry
  ELSE IF t < cache[tok].Validated + cacheTTL THEN NoEntry
  ELSE IF cache[tok].ExpiresAt # ZeroTime /\ t > cache[tok].ExpiresAt THEN NoEntry
  ELSE cache[tok]

\* A plausible slip: the token's own expiry is not looked at.
getCachedTokenTTLOnly(cache, tok, t) ==
  IF tok \notin DOMAIN cache THEN NoEntry
  ELSE IF t > cache[tok].Validated + cacheTTL THEN NoEntry
  ELSE cache[tok]

\* getCachedToken (body under the read lock): the entry, or NoEntry for nil.
getCachedToken(cache, tok, t) ==
  IF tok \notin DOMAIN cache THEN NoEntry
  ELSE IF t > cache[tok].Validated + cacheTTL THEN NoEntry
  ELSE IF cache[tok].ExpiresAt # ZeroTime /\ t > cache[tok].ExpiresAt THEN NoEntry
  ELSE cache[tok]

\* A plausible slip: the entry is stored without the claims.
NewCachedTokenNoClaims(claims, t) ==
  [Claims |-> NilClaims,
   ExpiresAt |-> IF IsFloat(claims, "exp") THEN claims["exp"].n ELSE ZeroTime,
   Validated |-> t]

\* A plausible slip: ExpiresAt is the earlier of the end of the TTL and exp.
NewCachedTokenEarlier(claims, t) ==
  [Claims |-> claims,
   ExpiresAt |-> IF IsFloat(claims, "exp") /\ claims["exp"].n < t + cacheTTL
                 THEN claims["exp"].n ELSE t + cacheTTL,
   Validated |-> t]

\* cacheToken (body under the write lock): the entry it stores.
NewCachedToken(claims, t) ==
  [Claims |-> claims,
   ExpiresAt |-> IF IsFloat(claims, "exp") THEN claims["exp"].n ELSE ZeroTime,
   Validated |-> t]

\* ---------------------------------------------------------------- the results
MissingToken ==
  [Valid |-> FALSE, Claims |-> NilClaims, ErrorCode |-> "MISSING_TOKEN",
   Error |-> <<"Authorization header is required">>]
TokenRevoked ==
  [Valid |-> FALSE, Claims |-> NilClaims, ErrorCode |-> "TOKEN_REVOKED",
   Error |-> <<"Token has been revoked">>]
\* A plausible slip: a failure of the key resolver gets a code of its own.
InvalidTokenKeyCode(err) ==
  [Valid |-> FALSE, Claims |-> NilClaims,
   ErrorCode |-> IF err = "token is unverifiable" THEN "KEY_RESOLUTION_FAILED" ELSE "INVALID_TOKEN",
   Error |-> <<"Token validation failed: ", err>>]

\* ValidateRequest, lines 174-178: every error of jwt.Parse.
InvalidToken(err) ==
  [Valid |-> FALSE, Claims |-> NilClaims, ErrorCode |-> "INVALID_TOKEN",
   Error |-> <<"Token validation failed: ", err>>]
InvalidClaims(err) ==
  [Valid |-> FALSE, Claims |-> NilClaims, ErrorCode |-> "INVALID_CLAIMS", Error |-> <<err>>]
ValidResult(claims) ==
  [Valid |-> TRUE, Claims |-> claims, ErrorCode |-> "", Error |-> <<>>]

\* ValidateRequest returns res to its caller: Middleware and Protect go on with
\* it, a direct caller is done.
Return(p, res) ==
  /\ result' = [result EXCEPT ![p] = res]
  /\ pc' = [pc EXCEPT ![p] = IF op[p] \in {"Middleware", "Protect"} THEN "respond" ELSE "done"]

\* A plausible slip: the cache is looked up before the revocation check.
StageAfterExtractCacheFirst == "getCachedToken"

\* The stage of ValidateRequest that follows a successful extraction.
StageAfterExtract == "isTokenRevoked"

\* ------------------------------------------------------------------- the calls
\* A goroutine starts a call: a request with header h through ValidateRequest,
\* Middleware or Protect, or RevokeToken / isTokenRevoked on token tok.
Call(p, o, h, tok) ==
  /\ pc[p] = "idle"
  /\ op' = [op EXCEPT ![p] = o]
  /\ hdr' = [hdr EXCEPT ![p] = h]
  /\ local' = [local EXCEPT ![p] = [NoLocal EXCEPT !.tokenString = tok]]
  /\ pre' = [pre EXCEPT ![p] =
               LET k == IF o \in ValidateOps THEN extractToken(h) ELSE tok IN
               [revokedAt |-> Lookup(revokedTokens, k, ZeroTime),
                cached |-> Lookup(tokenCache, k, NoEntry),
                lastRevoked |-> Lookup(lastRevoked, k, ZeroTime)]]
  /\ pc' = [pc EXCEPT ![p] =
              IF o \in ValidateOps THEN "extractToken"
              ELSE IF o = "RevokeToken" THEN "RevokeToken" ELSE "isTokenRevoked"]
  /\ UNCHANGED <<now, jwksKeys, revokedTokens, revokedMutex, tokenCache, tokenCacheMutex,
                 result, resp, lastRevoked, cv, rl>>

\* ValidateRequest, lines 145-152.
ExtractToken(p) ==
  /\ pc[p] = "extractToken"
  /\ LET tokenString == extractToken(hdr[p]) IN
     IF tokenString = <<>>
     THEN Return(p, MissingToken) /\ UNCHANGED local
     ELSE /\ local' = [local EXCEPT ![p].tokenString = tokenString]
          /\ pc' = [pc EXCEPT ![p] = StageAfterExtract]
          /\ UNCHANGED result
  /\ UNCHANGED <<now, jwksKeys, revokedTokens, revokedMutex, tokenCache, tokenCacheMutex,
                 op, hdr, resp, pre, lastRevoked, cv, rl>>

\* A plausible slip: a revocation record counts whatever its age.
IsTokenRevokedNoLapse(p) ==
  /\ pc[p] = "isTokenRevoked"
  /\ CanRLock(revokedMutex)
  /\ revokedMutex' = RLock(revokedMutex, p)
  /\ LET tok == local[p].tokenString
         exists == tok \in DOMAIN revokedTokens
     IN  local' = [local EXCEPT ![p].exists = exists,
                                ![p].revokedAt = Lookup(revokedTokens, tok, ZeroTime),
                                ![p].revoked = exists]
  /\ pc' = [pc EXCEPT ![p] = "revokedRUnlock"]
  /\ UNCHANGED <<now, jwksKeys, revokedTokens, tokenCache, tokenCacheMutex,
                 op, hdr, result, resp, pre, lastRevoked, cv, rl>>

\* isTokenRevoked, lines 372-381 and 390: RLock, the lookup and the age test.
IsTokenRevoked(p) ==
  /\ pc[p] = "isTokenRevoked"
  /\ CanRLock(revokedMutex)
  /\ revokedMutex' = RLock(revokedMutex, p)
  /\ LET tok == local[p].tokenString
         exists == tok \in DOMAIN revokedTokens
         revokedAt == Lookup(revokedTokens, tok, ZeroTime)
     IN  /\ local' = [local EXCEPT ![p].exists = exists, ![p].revokedAt = revokedAt,
                                   ![p].revoked = exists /\ ~(now - revokedAt > RevocationRetention)]
         /\ pc' = [pc EXCEPT ![p] =
                     IF exists /\ now - revokedAt > RevocationRetention
                     THEN "purgeRUnlock" ELSE "revokedRUnlock"]
  /\ UNCHANGED <<now, jwksKeys, revokedTokens, tokenCache, tokenCacheMutex,
                 op, hdr, result, resp, pre, lastRevoked, cv, rl>>

\* A plausible slip: the purge takes the write lock with the read lock still held.
PurgeRUnlockKeep(p) ==
  /\ pc[p] = "purgeRUnlock"
  /\ pc' = [pc EXCEPT ![p] = "purgeLock"]
  /\ UNCHANGED <<now, jwksKeys, revokedTokens, revokedMutex, tokenCache, tokenCacheMutex,
                 op, hdr, local, result, resp, pre, lastRevoked, cv, rl>>

\* isTokenRevoked, line 382: the read lock is given up before the purge.
PurgeRUnlock(p) ==
  /\ pc[p] = "purgeRUnlock"
  /\ revokedMutex' = RUnlock(revokedMutex, p)
  /\ pc' = [pc EXCEPT ![p] = "purgeLock"]
  /\ UNCHANGED <<now, jwksKeys, revokedTokens, tokenCache, tokenCacheMutex,
                 op, hdr, local, result, resp, pre, lastRevoked, cv, rl>>

\* A plausible slip: the stale record is reported as not revoked but left in the map.
PurgeLockKeep(p) ==
  /\ pc[p] = "purgeLock"
  /\ CanLock(revokedMutex)
  /\ revokedMutex' = Lock(revokedMutex, p)
  /\ pc' = [pc EXCEPT ![p] = "purgeUnlock"]
  /\ UNCHANGED <<now, jwksKeys, revokedTokens, tokenCache, tokenCacheMutex,
                 op, hdr, local, result, resp, pre, lastRevoked, cv, rl>>

\* isTokenRevoked, lines 383-384: Lock and delete, whatever the record now holds.
PurgeLock(p) ==
  /\ pc[p] = "purgeLock"
  /\ CanLock(revokedMutex)
  /\ revokedMutex' = Lock(revokedMutex, p)
  /\ revokedTokens' = Delete(revokedTokens, local[p].tokenString)
  /\ pc' = [pc EXCEPT ![p] = "purgeUnlock"]
  /\ UNCHANGED <<now, jwksKeys, tokenCache, tokenCacheMutex,
                 op, hdr, local, result, resp, pre, lastRevoked, cv, rl>>

\* isTokenRevoked, line 385.
PurgeUnlock(p) ==
  /\ pc[p] = "purgeUnlock"
  /\ revokedMutex' = Unlock(revokedMutex)
  /\ pc' = [pc EXCEPT ![p] = "purgeRLock"]
  /\ UNCHANGED <<now, jwksKeys, revokedTokens, tokenCache, tokenCacheMutex,
                 op, hdr, local, result, resp, pre, lastRevoked, cv, rl>>

\* isTokenRevoked, lines 386-387: RLock again, for the deferred RUnlock.
PurgeRLock(p) ==
  /\ pc[p] = "purgeRLock"
  /\ CanRLock(revokedMutex)
  /\ revokedMutex' = RLock(revokedMutex, p)
  /\ pc' = [pc EXCEPT ![p] = "revokedRUnlock"]
  /\ UNCHANGED <<now, jwksKeys, revokedTokens, tokenCache, tokenCacheMutex,
                 op, hdr, local, result, resp, pre, lastRevoked, cv, rl>>

\* isTokenRevoked returns (deferred RUnlock, line 373); ValidateRequest, lines 155-161.
RevokedRUnlock(p) ==
  /\ pc[p] = "revokedRUnlock"
  /\ revokedMutex' = RUnlock(revokedMutex, p)
  /\ IF op[p] = "isTokenRevoked"
     THEN pc' = [pc EXCEPT ![p] = "done"] /\ UNCHANGED result
     ELSE IF local[p].revoked
     THEN Return(p, TokenRevoked)
     ELSE pc' = [pc EXCEPT ![p] = "getCachedToken"] /\ UNCHANGED result
  /\ UNCHANGED <<now, jwksKeys, revokedTokens, tokenCache, tokenCacheMutex,
                 op, hdr, local, resp, pre, lastRevoked, cv, rl>>

\* getCachedToken, lines 349-367: RLock, the lookup and the two time tests.
GetCachedToken(p) ==
  /\ pc[p] = "getCachedToken"
  /\ CanRLock(tokenCacheMutex)
  /\ tokenCacheMutex' = RLock(tokenCacheMutex, p)
  /\ local' = [local EXCEPT ![p].cacheRead = TRUE,
                            ![p].cached = getCachedToken(tokenCache, local[p].tokenString, now)]
  /\ pc' = [pc EXCEPT ![p] = "cacheRUnlock"]
  /\ UNCHANGED <<now, jwksKeys, revokedTokens, revokedMutex, tokenCache,
                 op, hdr, result, resp, pre, lastRevoked, cv, rl>>

\* getCachedToken returns (deferred RUnlock, line 350); ValidateRequest, lines 164-169.
CacheRUnlock(p) ==
  /\ pc[p] = "cacheRUnlock"
  /\ tokenCacheMutex' = RUnlock(tokenCacheMutex, p)
  /\ IF local[p].cached # NoEntry
     THEN Return(p, ValidResult(local[p].cached.Claims))
     ELSE pc' = [pc EXCEPT ![p] = "jwtParse"] /\ UNCHANGED result
  /\ UNCHANGED <<now, jwksKeys, revokedTokens, revokedMutex, tokenCache,
                 op, hdr, local, resp, pre, lastRevoked, cv, rl>>

\* ValidateRequest, lines 172-189: jwt.Parse; its claims are always MapClaims.
JwtParse(p) ==
  /\ pc[p] = "jwtParse"
  /\ LET r == jwtParse(local[p].tokenString, jwksKeys, allowedAlgs, now) IN
     /\ local' = [local EXCEPT ![p].parsed = TRUE, ![p].keyfunc = r.keyfunc,
                               ![p].claims = r.claims]
     /\ IF r.err # Nil
        THEN Return(p, InvalidToken(r.err))
        ELSE pc' = [pc EXCEPT ![p] = "validateClaims"] /\ UNCHANGED result
  /\ UNCHANGED <<now, jwksKeys, revokedTokens, revokedMutex, tokenCache, tokenCacheMutex,
                 op, hdr, resp, pre, lastRevoked, cv, rl>>

\* ValidateRequest, lines 192-198: validateClaims; a panic ends the goroutine's call.
ValidateClaims(p) ==
  /\ pc[p] = "validateClaims"
  /\ LET err == validateClaims(local[p].claims, clientID, scope, now) IN
     IF err = Panic
     THEN pc' = [pc EXCEPT ![p] = "panicked"] /\ UNCHANGED result
     ELSE IF err # Nil
     THEN Return(p, InvalidClaims(err))
     ELSE pc' = [pc EXCEPT ![p] = "cacheToken"] /\ UNCHANGED result
  /\ UNCHANGED <<now, jwksKeys, revokedTokens, revokedMutex, tokenCache, tokenCacheMutex,
                 op, hdr, local, resp, pre, lastRevoked, cv, rl>>

\* cacheToken, lines 329-344: Lock and store.
CacheToken(p) ==
  /\ pc[p] = "cacheToken"
  /\ CanLock(tokenCacheMutex)
  /\ tokenCacheMutex' = Lock(tokenCacheMutex, p)
  /\ tokenCache' = Store(tokenCache, local[p].tokenString, NewCachedToken(local[p].claims, now))
  /\ pc' = [pc EXCEPT ![p] = "cacheUnlock"]
  /\ UNCHANGED <<now, jwksKeys, revokedTokens, revokedMutex,
                 op, hdr, local, result, resp, pre, lastRevoked, cv, rl>>

\* cacheToken returns (deferred Unlock, line 330); ValidateRequest, lines 203-206.
CacheUnlock(p) ==
  /\ pc[p] = "cacheUnlock"
  /\ tokenCacheMutex' = Unlock(tokenCacheMutex)
  /\ Return(p, ValidResult(local[p].claims))
  /\ UNCHANGED <<now, jwksKeys, revokedTokens, revokedMutex, tokenCache,
                 op, hdr, local, resp, pre, lastRevoked, cv, rl>>

\* A plausible slip: a second call on a revoked token takes the revocation back.
RevokeTokenToggle(p) ==
  /\ pc[p] = "RevokeToken"
  /\ CanLock(revokedMutex)
  /\ revokedMutex' = Lock(revokedMutex, p)
  /\ revokedTokens' = IF local[p].tokenString \in DOMAIN revokedTokens
                       THEN Delete(revokedTokens, local[p].tokenString)
                       ELSE Store(revokedTokens, local[p].tokenString, now)
  /\ local' = [local EXCEPT ![p].revokedAt = now]
  /\ pc' = [pc EXCEPT ![p] = "revokeUnlock"]
  /\ UNCHANGED <<now, jwksKeys, tokenCache, tokenCacheMutex,
                 op, hdr, result, resp, pre, lastRevoked, cv, rl>>

\* A plausible slip: revoking a token also drops its cache entry.
RevokeTokenDropCache(p) ==
  /\ pc[p] = "RevokeToken"
  /\ CanLock(revokedMutex)
  /\ revokedMutex' = Lock(revokedMutex, p)
  /\ revokedTokens' = Store(revokedTokens, local[p].tokenString, now)
  /\ tokenCache' = Delete(tokenCache, local[p].tokenString)
  /\ local' = [local EXCEPT ![p].revokedAt = now]
  /\ pc' = [pc EXCEPT ![p] = "revokeUnlock"]
  /\ UNCHANGED <<now, jwksKeys, tokenCacheMutex,
                 op, hdr, result, resp, pre, lastRevoked, cv, rl>>

\* RevokeToken, lines 395-397: Lock and store the time.
RevokeToken(p) ==
  /\ pc[p] = "RevokeToken"
  /\ CanLock(revokedMutex)
  /\ revokedMutex' = Lock(revokedMutex, p)
  /\ revokedTokens' = Store(revokedTokens, local[p].tokenString, now)
  /\ local' = [local EXCEPT ![p].revokedAt = now]
  /\ pc' = [pc EXCEPT ![p] = "revokeUnlock"]
  /\ UNCHANGED <<now, jwksKeys, tokenCache, tokenCacheMutex,
                 op, hdr, result, resp, pre, lastRevoked, cv, rl>>

\* RevokeToken returns (deferred Unlock, line 396).
RevokeUnlock(p) ==
  /\ pc[p] = "revokeUnlock"
  /\ revokedMutex' = Unlock(revokedMutex)
  /\ lastRevoked' = Store(lastRevoked, local[p].tokenString, local[p].revokedAt)
  /\ pc' = [pc EXCEPT ![p] = "done"]
  /\ UNCHANGED <<now, jwksKeys, revokedTokens, tokenCache, tokenCacheMutex,
                 op, hdr, local, result, resp, pre, cv, rl>>

\* ------------------------------------------------------- Middleware and Protect
\* sendUnauthorizedResponse: the 401 response.
sendUnauthorizedResponse(errorCode, errorMsg) ==
  [NoResp EXCEPT !.status = 401, !.contentType = "application/json",
                 !.wwwAuthenticate = <<"Bearer error=\"", errorCode, "\"">>,
                 !.body = [error |-> errorMsg, code |-> errorCode]]

\* next.ServeHTTP(w, r.WithContext(ctx)) with the claims under JWTClaimsKey.
ServeNext(claims) == [NoResp EXCEPT !.nextCalled = TRUE, !.ctxClaims = claims]

\* A plausible slip: the handler runs whatever the result.
HandleResultAlwaysNext(res) == ServeNext(res.Claims)

\* Middleware / Protect, after ValidateRequest returned res.
HandleResult(res) ==
  IF ~res.Valid THEN sendUnauthorizedResponse(res.ErrorCode, res.Error)
  ELSE ServeNext(res.Claims)

\* Middleware, lines 116-123.
Middleware(p) ==
  /\ pc[p] = "respond"
  /\ op[p] = "Middleware"
  /\ resp' = [resp EXCEPT ![p] = HandleResult(result[p])]
  /\ pc' = [pc EXCEPT ![p] = "done"]
  /\ UNCHANGED <<now, jwksKeys, revokedTokens, revokedMutex, tokenCache, tokenCacheMutex,
                 op, hdr, local, result, pre, lastRevoked, cv, rl>>

\* Protect, lines 131-138.
Protect(p) ==
  /\ pc[p] = "respond"
  /\ op[p] = "Protect"
  /\ resp' = [resp EXCEPT ![p] = HandleResult(result[p])]
  /\ pc' = [pc EXCEPT ![p] = "done"]
  /\ UNCHANGED <<now, jwksKeys, revokedTokens, revokedMutex, tokenCache, tokenCacheMutex,
                 op, hdr, local, result, pre, lastRevoked, cv, rl>>

\* The call is over (returned or panicked); the goroutine is free for the next.
Finish(p) ==
  /\ pc[p] \in {"done", "panicked"}
  /\ pc' = [pc EXCEPT ![p] = "idle"]
  /\ op' = [op EXCEPT ![p] = None]
  /\ hdr' = [hdr EXCEPT ![p] = NoHeader]
  /\ local' = [local EXCEPT ![p] = NoLocal]
  /\ result' = [result EXCEPT ![p] = NoResult]
  /\ resp' = [resp EXCEPT ![p] = NoResp]
  /\ pre' = [pre EXCEPT ![p] = NoPre]
  /\ UNCHANGED <<now, jwksKeys, revokedTokens, revokedMutex, tokenCache, tokenCacheMutex,
                 lastRevoked, cv, rl>>

\* ------------------------------------------------------------- the environment
\* Time passes.
Tick ==
  /\ now < MaxTime
  /\ now' = now + 1
  /\ UNCHANGED <<jwksKeys, revokedTokens, revokedMutex, tokenCache, tokenCacheMutex,
                 pc, op, hdr, local, result, resp, pre, lastRevoked, cv, rl>>

\* The key set is refreshed (keyfunc's refresh goroutine, lines 87-93): the
\* signing key is withdrawn or published again.
JWKSRefresh ==
  /\ jwksKeys' = IF jwksKeys = {} THEN {"k1"} ELSE {}
  /\ UNCHANGED <<now, revokedTokens, revokedMutex, tokenCache, tokenCacheMutex,
                 pc, op, hdr, local, result, resp, pre, lastRevoked, cv, rl>>

\* The steps of ValidateRequest, isTokenRevoked and RevokeToken.
Step(p) ==
  \/ ExtractToken(p)
  \/ IsTokenRevoked(p)
  \/ PurgeRUnlock(p)
  \/ PurgeLock(p)
  \/ PurgeUnlock(p)
  \/ PurgeRLock(p)
  \/ RevokedRUnlock(p)
  \/ GetCachedToken(p)
  \/ CacheRUnlock(p)
  \/ JwtParse(p)
  \/ ValidateClaims(p)
  \/ CacheToken(p)
  \/ CacheUnlock(p)
  \/ RevokeToken(p)
  \/ RevokeUnlock(p)

\* ------------------------------------------- Spec: goroutines run concurrently
ConcTokens == {T("2")}

CallConc(p) ==
  \E tok \in ConcTokens :
    \/ Call(p, "ValidateRequest", Bearer(tok), <<>>)
    \/ Call(p, "RevokeToken", NoHeader, tok)
    \/ Call(p, "isTokenRevoked", NoHeader, tok)

Next ==
  \/ \E p \in Procs : CallConc(p) \/ Step(p) \/ Finish(p)
  \/ Tick

Spec == Init /\ [][Next]_vars

\* ------------------ SpecLocks: concurrent calls under fair scheduling of the locks
\* The moment a request meets a revocation record that has outlived its retention.
InitLocks ==
  /\ now = RevocationRetention + 2
  /\ jwksKeys = {"k1"}
  /\ revokedTokens = [x \in ConcTokens |-> 1]
  /\ revokedMutex = Unlocked
  /\ tokenCache = [x \in {} |-> NoEntry]
  /\ tokenCacheMutex = Unlocked
  /\ pc = [p \in Procs |-> "idle"]
  /\ op = [p \in Procs |-> None]
  /\ hdr = [p \in Procs |-> NoHeader]
  /\ local = [p \in Procs |-> NoLocal]
  /\ result = [p \in Procs |-> NoResult]
  /\ resp = [p \in Procs |-> NoResp]
  /\ pre = [p \in Procs |-> NoPre]
  /\ lastRevoked = [x \in ConcTokens |-> 1]
  /\ cv = CvIdle
  /\ rl = NoRateLimit

NextLocks == \E p \in Procs : CallConc(p) \/ Step(p) \/ Finish(p)

\* A running goroutine is scheduled, and sync.RWMutex hands a lock that keeps
\* becoming free to each waiter in the end (a waiting writer holds back new
\* readers, a starved waiter is served first): strong fairness of each
\* goroutine's steps.
SpecLocks == InitLocks /\ [][NextLocks]_vars /\ \A p \in Procs : SF_vars(Step(p))

\* ----------------------------- SpecSeq: one call at a time, every kind of token
SeqTokens ==
  {T("1"), T("2"), T("3"), T("4"), T("5"), T("6"), T("7"), T("8"), T("9"),
   T("a"), T("b"), T("c"), T("d"), T("e")}
SeqHeaders ==
  {NoHeader, BasicHeader, LoneBearer, SpacedBearer(T("1"))}
    \cup {Bearer(tok) : tok \in SeqTokens}
RevocableTokens == {T("1"), T("2")}

AllIdle == \A p \in Procs : pc[p] = "idle"

\* The requests sent through the wrappers: one for each outcome of ValidateRequest.
WrappedHeaders ==
  {NoHeader, Bearer(T("1")), Bearer(T("2")), Bearer(T("6")), Bearer(T("7"))}

CallSeq ==
  \/ \E h \in SeqHeaders : Call(SeqProc, "ValidateRequest", h, <<>>)
  \/ \E h \in WrappedHeaders : Call(SeqProc, "Middleware", h, <<>>)
  \/ \E h \in WrappedHeaders : Call(SeqProc, "Protect", h, <<>>)
  \/ \E tok \in RevocableTokens : Call(SeqProc, "RevokeToken", NoHeader, tok)
  \/ \E tok \in RevocableTokens : Call(SeqProc, "isTokenRevoked", NoHeader, tok)

NextSeq ==
  \/ CallSeq
  \/ Step(SeqProc)
  \/ Middleware(SeqProc)
  \/ Protect(SeqProc)
  \/ Finish(SeqProc)
  \/ AllIdle /\ Tick
  \/ AllIdle /\ JWKSRefresh

SpecSeq == Init /\ [][NextSeq]_vars

\* ------------------ SpecClaims: the audience and scope checks as pure functions
RECURSIVE Words(_, _)
\* The strings over alphabet of length at most n.
Words(alphabet, n) ==
  IF n = 0 THEN {<<>>}
  ELSE LET W == Words(alphabet, n - 1) IN
       W \cup {Append(w, c) : w \in W, c \in alphabet}

\* Nothing, a part of "api://", "api://", and up to two copies of it.
PrefixParts == {SubSeq(S_api \o S_api, 1, k) : k \in 0..(2 * Len(S_api))}
OtherClaims == ("sub" :> Str(<<"u">>))

CvInputs ==
  LET AudStrings == {pp \o w : pp \in PrefixParts, w \in Words({"s", "v", "/"}, MaxAudLen)}
      ScpStrings == Words({"r", "d", " "}, MaxScpLen)
      ClientIDs == {<<"s">>, <<"s", "v">>, S_api \o <<"s">>}
      Scopes == {<<>>, <<"r">>, <<"r", "d">>}
      AudClaimSets ==
        {OtherClaims, OtherClaims @@ ("aud" :> Num(1)), OtherClaims @@ ("aud" :> Arr(<<"s">>))}
          \cup {OtherClaims @@ ("aud" :> Str(a)) : a \in AudStrings}
      ScpClaimSets ==
        {OtherClaims, OtherClaims @@ ("scp" :> Num(1)), OtherClaims @@ ("scp" :> Arr(<<"r">>))}
          \cup {OtherClaims @@ ("scp" :> Str(a)) : a \in ScpStrings}
  IN
  {[fn |-> "validateAudience", clientID |-> c, scope |-> <<>>, claims |-> cl, out |-> "pending"] :
     c \in ClientIDs, cl \in AudClaimSets}
  \cup
  {[fn |-> "validateScope", clientID |-> <<>>, scope |-> sc, claims |-> cl, out |-> "pending"] :
     sc \in Scopes, cl \in ScpClaimSets}
  \cup
  LET Absent0 == [t |-> "absent", s |-> <<>>, n |-> 0]
      TimeValues == {Absent0, Str(<<"x">>)} \cup {Num(n) : n \in 0..(1 + IatSkew + 1)}
      Times == [{"exp", "iat", "nbf"} -> TimeValues]
  IN  {[fn |-> "validateTimeClaims", clientID |-> <<>>, scope |-> <<>>,
        claims |-> [k \in {x \in DOMAIN f : f[x] # Absent0} |-> f[k]], out |-> "pending"] :
         f \in Times}

InitClaims ==
  /\ now = 1
  /\ jwksKeys = {"k1"}
  /\ revokedTokens = [x \in {} |-> 0]
  /\ revokedMutex = Unlocked
  /\ tokenCache = [x \in {} |-> NoEntry]
  /\ tokenCacheMutex = Unlocked
  /\ pc = [p \in Procs |-> "idle"]
  /\ op = [p \in Procs |-> None]
  /\ hdr = [p \in Procs |-> NoHeader]
  /\ local = [p \in Procs |-> NoLocal]
  /\ result = [p \in Procs |-> NoResult]
  /\ resp = [p \in Procs |-> NoResp]
  /\ pre = [p \in Procs |-> NoPre]
  /\ lastRevoked = [x \in {} |-> 0]
  /\ cv \in CvInputs
  /\ rl = NoRateLimit

\* v.validateAudience(claims) on a validator with the given client id.
ApplyValidateAudience ==
  /\ cv.fn = "validateAudience"
  /\ cv.out = "pending"
  /\ cv' = [cv EXCEPT !.out = validateAudience(cv.claims, cv.clientID)]
  /\ UNCHANGED <<now, jwksKeys, revokedTokens, revokedMutex, tokenCache, tokenCacheMutex,
                 pc, op, hdr, local, result, resp, pre, lastRevoked, rl>>

\* v.validateScope(claims) on a validator with the given required scope.
ApplyValidateScope ==
  /\ cv.fn = "validateScope"
  /\ cv.out = "pending"
  /\ cv' = [cv EXCEPT !.out = validateScope(cv.claims, cv.scope)]
  /\ UNCHANGED <<now, jwksKeys, revokedTokens, revokedMutex, tokenCache, tokenCacheMutex,
                 pc, op, hdr, local, result, resp, pre, lastRevoked, rl>>

\* v.validateTimeClaims(claims) at time now.
ApplyValidateTimeClaims ==
  /\ cv.fn = "validateTimeClaims"
  /\ cv.out = "pending"
  /\ cv' = [cv EXCEPT !.out = validateTimeClaims(cv.claims, now)]
  /\ UNCHANGED <<now, jwksKeys, revokedTokens, revokedMutex, tokenCache, tokenCacheMutex,
                 pc, op, hdr, local, result, resp, pre, lastRevoked, rl>>

NextClaims == ApplyValidateAudience \/ ApplyValidateScope \/ ApplyValidateTimeClaims

SpecClaims == InitClaims /\ [][NextClaims]_vars

\* --------- SpecPure: NewJWTValidator and the functions without state, on inputs
\* A *JWTConfig; isNil is the nil pointer.  CacheTTL 0 is the unset duration,
\* NilSlice the unset AllowedAlgs.
JWTConfig(cid, url, scp, algs, ttl) ==
  [isNil |-> FALSE, ClientID |-> cid, JWKSURL |-> url, Scope |-> scp,
   AllowedAlgs |-> algs, CacheTTL |-> ttl]
NilConfig ==
  [isNil |-> TRUE, ClientID |-> <<>>, JWKSURL |-> <<>>, Scope |-> <<>>,
   AllowedAlgs |-> NilSlice, CacheTTL |-> 0]

\* DefaultJWTConfig()
DefaultJWTConfig == JWTConfig(<<>>, <<>>, <<>>, allowedAlgs, cacheTTL)

NoValidator == [clientID |-> <<>>, scope |-> <<>>, allowedAlgs |-> NilSlice, cacheTTL |-> 0]

\* NewJWTValidator: the defaults stand in for a nil config only; the fields of
\* a given config are taken as they are.  reachable: keyfunc.Get succeeded.
NewJWTValidator(config, reachable) ==
  LET c == IF config.isNil THEN DefaultJWTConfig ELSE config IN
  IF c.ClientID = <<>> THEN [err |-> "client ID is required", v |-> NoValidator]
  ELSE IF c.JWKSURL = <<>> THEN [err |-> "JWKS URL is required", v |-> NoValidator]
  ELSE IF ~reachable THEN [err |-> "failed to fetch JWKS", v |-> NoValidator]
  ELSE [err |-> Nil,
        v |-> [clientID |-> c.ClientID, scope |-> c.Scope,
               allowedAlgs |-> c.AllowedAlgs, cacheTTL |-> c.CacheTTL]]

\* ValidateRequest, lines 172-206, on a validator v whose cache and revocation
\* map are empty: the result, whether the token was cached, and the entry
\* cacheToken stored for it.
ValidateFresh(v, tok, keys, t) ==
  LET r == jwtParse(tok, keys, v.allowedAlgs, t) IN
  IF r.err # Nil
  THEN [res |-> InvalidToken(r.err), cached |-> FALSE, panicked |-> FALSE, entry |-> NoEntry]
  ELSE LET err == validateClaims(r.claims, v.clientID, v.scope, t) IN
       IF err = Panic
       THEN [res |-> NoResult, cached |-> FALSE, panicked |-> TRUE, entry |-> NoEntry]
       ELSE IF err # Nil
       THEN [res |-> InvalidClaims(err), cached |-> FALSE, panicked |-> FALSE, entry |-> NoEntry]
       ELSE [res |-> ValidResult(r.claims), cached |-> TRUE, panicked |-> FALSE,
             entry |-> NewCachedToken(r.claims, t)]

\* The configurations handed to NewJWTValidator (nil, and every combination of
\* set and unset fields), with the token the validator is then given.
ConfigInputs ==
  LET ConfigAlgs == {NilSlice, Slice({}), Slice({"RS256"}), Slice({"HS256"}), allowedAlgs}
      Configs ==
        {NilConfig} \cup
        {JWTConfig(cid, url, scp, algs, ttl) :
           cid \in {<<>>, S_svc}, url \in {<<>>, <<"u">>}, scp \in {<<>>, S_read},
           algs \in ConfigAlgs, ttl \in {0, cacheTTL}}
      ConfigTokens == {T("1"), T("2"), T("a"), T("b"), T("d"), T("f")}
  IN  {[fn |-> "NewJWTValidator", config |-> c, reachable |-> r, tok |-> tok,
        stage |-> "input", out |-> [err |-> Nil, v |-> NoValidator],
        val |-> [res |-> NoResult, cached |-> FALSE, panicked |-> FALSE, entry |-> NoEntry]] :
         c \in Configs, r \in BOOLEAN, tok \in ConfigTokens}

\* Authorization header values: optional leading space, a scheme, a separator,
\* a credential (possibly with a space inside) and a tail.
ExtractInputs ==
  LET HeaderSchemes ==
        {<<"B", "e", "a", "r", "e", "r">>, S_bearer, <<"B", "E", "A", "R", "E", "R">>,
         <<"b", "E", "a", "R", "e", "r">>, <<"B", "a", "s", "i", "c">>,
         <<"B", "e", "a", "r">>, <<"B", "e", "a", "r", "e", "r", "s">>}
      HeaderSeparators == {<<>>, <<" ">>, <<" ", " ">>, <<"\t">>}
      HeaderCredentials == {<<>>, <<"t", "1">>, <<"t", " ", "1">>}
      HeaderTails == {<<>>, <<" ">>, <<" ", "x">>}
      HeaderValues ==
        {NoHeader} \cup
        {lead \o sch \o sep \o cred \o tail :
           lead \in {<<>>, <<" ">>}, sch \in HeaderSchemes, sep \in HeaderSeparators,
           cred \in HeaderCredentials, tail \in HeaderTails}
  IN  {[fn |-> "extractToken", header |-> h, stage |-> "input", out |-> <<>>] :
         h \in HeaderValues}

\* A context: without a value under JWTClaimsKey, with a value of another
\* type, or with jwt.MapClaims.
Context(kind, claims) == [kind |-> kind, claims |-> claims]

\* GetClaimsFromContext: the comma-ok assertion to jwt.MapClaims.
GetClaimsFromContext(ctx) ==
  IF ctx.kind = "claims" THEN [claims |-> ctx.claims, ok |-> TRUE]
  ELSE [claims |-> NilClaims, ok |-> FALSE]

userIDFields == <<"sub", "user_id", "uid", "userid">>

RECURSIVE UserIDFrom(_, _)
\* The loop over userIDFields from position i on.
UserIDFrom(claims, i) ==
  IF i > Len(userIDFields) THEN [id |-> <<>>, ok |-> FALSE]
  ELSE LET field == userIDFields[i] IN
       IF Has(claims, field) /\ claims[field].t = "string" /\ claims[field].s # <<>>
       THEN [id |-> claims[field].s, ok |-> TRUE]
       ELSE UserIDFrom(claims, i + 1)

\* A plausible slip: the first claim that is a string is returned, empty or not.
GetUserIDFromContextAcceptEmpty(ctx) ==
  LET c == GetClaimsFromContext(ctx)
      I == {i \in 1..Len(userIDFields) :
              Has(c.claims, userIDFields[i]) /\ c.claims[userIDFields[i]].t = "string"}
  IN  IF ~c.ok \/ I = {} THEN [id |-> <<>>, ok |-> FALSE]
      ELSE [id |-> c.claims[userIDFields[CHOOSE i \in I : \A k \in I : i <= k]].s, ok |-> TRUE]

\* GetUserIDFromContext
GetUserIDFromContext(ctx) ==
  LET c == GetClaimsFromContext(ctx) IN
  IF ~c.ok THEN [id |-> <<>>, ok |-> FALSE] ELSE UserIDFrom(c.claims, 1)

\* What a user-id claim may hold: nothing (the claim is absent), the empty
\* string, two different names, a number.
Absent == [t |-> "absent", s |-> <<>>, n |-> 0]
UserIDFieldSet == {userIDFields[i] : i \in 1..Len(userIDFields)}

UserIDInputs ==
  LET UserIDValues == {Absent, Str(<<>>), Str(<<"u">>), Str(<<"w">>), Num(1)}
      ClaimsOf(f) == [k \in {x \in DOMAIN f : f[x] # Absent} |-> f[k]]
      Contexts ==
        {Context("none", NilClaims), Context("other", NilClaims)}
          \cup {Context("claims", ClaimsOf(f)) : f \in [UserIDFieldSet -> UserIDValues]}
  IN  {[fn |-> "GetUserIDFromContext", ctx |-> c, stage |-> "input",
        out |-> [id |-> <<>>, ok |-> FALSE]] : c \in Contexts}

PureInputs == ConfigInputs \cup ExtractInputs \cup UserIDInputs

InitPure ==
  /\ now = 1
  /\ jwksKeys = {"k1"}
  /\ revokedTokens = [x \in {} |-> 0]
  /\ revokedMutex = Unlocked
  /\ tokenCache = [x \in {} |-> NoEntry]
  /\ tokenCacheMutex = Unlocked
  /\ pc = [p \in Procs |-> "idle"]
  /\ op = [p \in Procs |-> None]
  /\ hdr = [p \in Procs |-> NoHeader]
  /\ local = [p \in Procs |-> NoLocal]
  /\ result = [p \in Procs |-> NoResult]
  /\ resp = [p \in Procs |-> NoResp]
  /\ pre = [p \in Procs |-> NoPre]
  /\ lastRevoked = [x \in {} |-> 0]
  /\ cv \in PureInputs
  /\ rl = NoRateLimit

\* NewJWTValidator(config)
ApplyNewJWTValidator ==
  /\ cv.fn = "NewJWTValidator"
  /\ cv.stage = "input"
  /\ cv' = [cv EXCEPT !.stage = "constructed",
                      !.out = NewJWTValidator(cv.config, cv.reachable)]
  /\ UNCHANGED <<now, jwksKeys, revokedTokens, revokedMutex, tokenCache, tokenCacheMutex,
                 pc, op, hdr, local, result, resp, pre, lastRevoked, rl>>

\* The first request to the validator just constructed.
ApplyValidateFresh ==
  /\ cv.fn = "NewJWTValidator"
  /\ cv.stage = "constructed"
  /\ cv.out.err = Nil
  /\ cv' = [cv EXCEPT !.stage = "validated",
                      !.val = ValidateFresh(cv.out.v, cv.tok, jwksKeys, now)]
  /\ UNCHANGED <<now, jwksKeys, revokedTokens, revokedMutex, tokenCache, tokenCacheMutex,
                 pc, op, hdr, local, result, resp, pre, lastRevoked, rl>>

\* v.extractToken(r) on a request with the given Authorization header.
ApplyExtractToken ==
  /\ cv.fn = "extractToken"
  /\ cv.stage = "input"
  /\ cv' = [cv EXCEPT !.stage = "returned", !.out = extractToken(cv.header)]
  /\ UNCHANGED <<now, jwksKeys, revokedTokens, revokedMutex, tokenCache, tokenCacheMutex,
                 pc, op, hdr, local, result, resp, pre, lastRevoked, rl>>

\* GetUserIDFromContext(ctx)
ApplyGetUserIDFromContext ==
  /\ cv.fn = "GetUserIDFromContext"
  /\ cv.stage = "input"
  /\ cv' = [cv EXCEPT !.stage = "returned", !.out = GetUserIDFromContext(cv.ctx)]
  /\ UNCHANGED <<now, jwksKeys, revokedTokens, revokedMutex, tokenCache, tokenCacheMutex,
                 pc, op, hdr, local, result, resp, pre, lastRevoked, rl>>

NextPure ==
  \/ ApplyNewJWTValidator
  \/ ApplyValidateFresh
  \/ ApplyExtractToken
  \/ ApplyGetUserIDFromContext

SpecPure == InitPure /\ [][NextPure]_vars

\* ------------- SpecRate: the rate-limit middleware of pkg/api (endpoints.go)
\* config.Burst, the size of a limiter's bucket.
RateBurst == 2
\* The number of limiters above which cleanup discards them all (1000, scaled).
CleanupThreshold == 2

\* strings.TrimSpace
TrimSpace(s) ==
  LET I == {i \in 1..Len(s) : ~IsSpace(s[i])} IN
  IF I = {} THEN <<>>
  ELSE SubSeq(s, CHOOSE i \in I : \A k \in I : i <= k, CHOOSE i \in I : \A k \in I : i >= k)

\* strings.Index / strings.LastIndex of a one-character string: 0-based, or -1.
Index(s, c) ==
  LET I == {i \in 1..Len(s) : s[i] = c} IN
  IF I = {} THEN -1 ELSE (CHOOSE i \in I : \A k \in I : i <= k) - 1
LastIndex(s, c) ==
  LET I == {i \in 1..Len(s) : s[i] = c} IN
  IF I = {} THEN -1 ELSE (CHOOSE i \in I : \A k \in I : i >= k) - 1

\* A request: the headers the middleware reads and the remote address.
Request(xff, xRealIP, xClientIP, remoteAddr, authorization) ==
  [xForwardedFor |-> xff, xRealIP |-> xRealIP, xClientIP |-> xClientIP,
   remoteAddr |-> remoteAddr, authorization |-> authorization]

\* getClientIP
getClientIP(r) ==
  IF r.xForwardedFor # <<>>
  THEN LET ip == r.xForwardedFor
           commaIdx == Index(ip, ",")
       IN  IF commaIdx # -1 THEN TrimSpace(SubSeq(ip, 1, commaIdx)) ELSE TrimSpace(ip)
  ELSE IF r.xRealIP # <<>> THEN TrimSpace(r.xRealIP)
  ELSE IF r.xClientIP # <<>> THEN TrimSpace(r.xClientIP)
  ELSE LET ip == r.remoteAddr
           colonIdx == LastIndex(ip, ":")
       IN  IF colonIdx # -1 THEN SubSeq(ip, 1, colonIdx) ELSE ip

\* getTokenFromRequest
getTokenFromRequest(r) ==
  IF r.authorization = <<>> THEN <<>>
  ELSE LET parts == Fields(r.authorization) IN
       IF Len(parts) # 2 THEN <<>>
       ELSE IF ToLower(parts[1]) # S_bearer THEN <<>>
       ELSE parts[2]

\* A raw credential of the api package; what it holds is given by Segments.
J(x) == <<"j", x>>

\* strings.Split(jwtRaw, "."), base64 and JSON decoding of the second segment:
\* the number of segments, whether each decoding succeeds, and the payload.
Segments(jwtRaw) ==
  CASE jwtRaw = J("1") -> [n |-> 3, base64OK |-> TRUE, jsonOK |-> TRUE,
                           payload |-> ("sub" :> Str(<<"u">>))]
    [] jwtRaw = J("2") -> [n |-> 3, base64OK |-> TRUE, jsonOK |-> TRUE,
                           payload |-> ("sub" :> Str(<<"w">>)) @@ ("uid" :> Str(<<"u">>))]
    [] jwtRaw = J("3") -> [n |-> 3, base64OK |-> TRUE, jsonOK |-> TRUE,
                           payload |-> ("user_id" :> Str(<<"u">>))]
    [] jwtRaw = J("4") -> [n |-> 3, base64OK |-> TRUE, jsonOK |-> TRUE,
                           payload |-> ("sub" :> Num(1))]
    [] jwtRaw = J("5") \/ jwtRaw = <<>> ->
         [n |-> 1, base64OK |-> FALSE, jsonOK |-> FALSE, payload |-> NilClaims]
    [] jwtRaw = J("6") -> [n |-> 3, base64OK |-> FALSE, jsonOK |-> FALSE, payload |-> NilClaims]
    [] OTHER -> [n |-> 2, base64OK |-> TRUE, jsonOK |-> FALSE, payload |-> NilClaims]

\* getClaimFromJWT: jwtParts[1] panics on a credential without a dot, and
\* claim.(string) on a claim that is not a string; a claim that is not there
\* is returned as "" with the nil err of the JSON decoding.
getClaimFromJWT(jwtRaw, claimName) ==
  LET t == Segments(jwtRaw) IN
  IF t.n < 2 THEN [value |-> <<>>, err |-> Panic]
  ELSE IF ~t.base64OK THEN [value |-> <<>>, err |-> "illegal base64 data"]
  ELSE IF ~t.jsonOK THEN [value |-> <<>>, err |-> "invalid character"]
  ELSE IF ~Has(t.payload, claimName) THEN [value |-> <<>>, err |-> Nil]
  ELSE IF t.payload[claimName].t # "string" THEN [value |-> <<>>, err |-> Panic]
  ELSE [value |-> t.payload[claimName].s, err |-> Nil]

\* getUserIDFromJWT: "user_id" and "uid" are tried only after an error.
getUserIDFromJWT(r) ==
  LET token == getTokenFromRequest(r) IN
  IF token = <<>> THEN [value |-> <<>>, err |-> Nil]
  ELSE LET r1 == getClaimFromJWT(token, "sub") IN
       IF r1.err = Nil \/ r1.err = Panic THEN r1
       ELSE LET r2 == getClaimFromJWT(token, "user_id") IN
            IF r2.err = Nil \/ r2.err = Panic THEN r2
            ELSE LET r3 == getClaimFromJWT(token, "uid") IN
                 [value |-> r3.value, err |-> IF r3.err = Panic THEN Panic ELSE Nil]

\* A plausible slip: a limiter with no token left still lets a request pass.
AllowOffByOne(tokens) == tokens >= 0

\* rate.Limiter.Allow on a bucket holding tokens.
Allow(tokens) == tokens >= 1

\* rateLimiter.getLimiter: the limiter of key, made with a full bucket if new.
getLimiter(limiters, key) ==
  IF key \in DOMAIN limiters THEN limiters ELSE Store(limiters, key, RateBurst)

\* What the middleware wrote and whether it called the wrapped handler.
NoRateResp ==
  [status |-> 0, contentType |-> "", xRateLimitLimit |-> "", xRateLimitRemaining |-> "",
   xRateLimitReset |-> FALSE, body |-> "", nextCalled |-> FALSE, panicked |-> FALSE]

NoRequest == Request(<<>>, <<>>, <<>>, <<>>, <<>>)
NoLimiters == [k \in {} |-> 0]

\* history: how many requests the key's limiter has let pass since its bucket
\* was last full, or Refilled when time has added to a bucket without filling it.
Refilled == -1

RateLimitVariants == {"RateLimitByIP", "RateLimitByToken", "RateLimitByUserID"}

\* The handler, once the key is known: the limiter, Allow, and the response
\* (429 with the rate limit headers, or the headers and the wrapped handler).
LimitByKey(r, key) ==
  LET TooManyRequests ==
        [NoRateResp EXCEPT !.status = 429, !.contentType = "application/json",
                           !.xRateLimitLimit = "10", !.xRateLimitRemaining = "0",
                           !.xRateLimitReset = TRUE,
                           !.body = "Rate limit exceeded. Please try again later."]
      RateLimitedNext ==
        [NoRateResp EXCEPT !.xRateLimitLimit = "10", !.xRateLimitRemaining = "9",
                           !.xRateLimitReset = TRUE, !.nextCalled = TRUE]
      lims == getLimiter(rl.limiters, key)
      hist == IF key \in DOMAIN rl.limiters THEN rl.hist ELSE Store(rl.hist, key, 0)
      before == [limiters |-> rl.limiters, hist |-> rl.hist]
  IN  IF ~Allow(lims[key])
      THEN [rl EXCEPT !.limiters = lims, !.hist = hist, !.req = r, !.key = key,
                      !.limited = TRUE, !.resp = TooManyRequests, !.before = before]
      ELSE [rl EXCEPT !.limiters = [lims EXCEPT ![key] = @ - 1],
                      !.hist = [hist EXCEPT ![key] = IF @ = Refilled THEN @ ELSE @ + 1],
                      !.req = r, !.key = key, !.limited = TRUE,
                      !.resp = RateLimitedNext, !.before = before]

\* The handler when there is nothing to limit by: the request is passed on.
PassOn(r) ==
  [rl EXCEPT !.req = r, !.key = <<>>, !.limited = FALSE,
             !.resp = [NoRateResp EXCEPT !.nextCalled = TRUE],
             !.before = [limiters |-> rl.limiters, hist |-> rl.hist]]

\* The handler panicked while it worked out the key.
PanicOn(r) ==
  [rl EXCEPT !.req = r, !.key = <<>>, !.limited = FALSE,
             !.resp = [NoRateResp EXCEPT !.panicked = TRUE],
             !.before = [limiters |-> rl.limiters, hist |-> rl.hist]]

\* The requests: by address (forwarded, real, client, remote), and by credential.
RateRequests ==
  {Request(xff, <<>>, <<>>, ra, <<>>) :
     xff \in {<<>>, <<"a", ",", "b">>, <<" ", "b", " ">>},
     ra \in {<<"a", ":", "1">>, <<"c">>}}
  \cup {Request(<<>>, <<"b">>, <<"a">>, <<"c", ":", "1">>, <<>>),
        Request(<<>>, <<>>, <<"a">>, <<"c", ":", "1">>, <<>>)}
  \cup {Request(<<>>, <<>>, <<>>, <<"a", ":", "1">>, h) :
          h \in {BasicHeader, Bearer(J("1")), Bearer(J("2")), Bearer(J("3")),
                 Bearer(J("4")), SpacedBearer(J("1"))}}

InitRate ==
  /\ now = 1
  /\ jwksKeys = {"k1"}
  /\ revokedTokens = [x \in {} |-> 0]
  /\ revokedMutex = Unlocked
  /\ tokenCache = [x \in {} |-> NoEntry]
  /\ tokenCacheMutex = Unlocked
  /\ pc = [p \in Procs |-> "idle"]
  /\ op = [p \in Procs |-> None]
  /\ hdr = [p \in Procs |-> NoHeader]
  /\ local = [p \in Procs |-> NoLocal]
  /\ result = [p \in Procs |-> NoResult]
  /\ resp = [p \in Procs |-> NoResp]
  /\ pre = [p \in Procs |-> NoPre]
  /\ lastRevoked = [x \in {} |-> 0]
  /\ cv = CvIdle
  /\ rl \in {[variant |-> v, limiters |-> NoLimiters, hist |-> NoLimiters, req |-> NoRequest,
              key |-> <<>>, limited |-> FALSE, resp |-> NoRateResp,
              before |-> [limiters |-> NoLimiters, hist |-> NoLimiters],
              claim |-> "", ctx |-> [set |-> FALSE, value |-> <<>>], nextCalls |-> 0] :
               v \in RateLimitVariants \cup {"JWTRequestEnricher"}}

RateUnchanged ==
  UNCHANGED <<now, jwksKeys, revokedTokens, revokedMutex, tokenCache, tokenCacheMutex,
              pc, op, hdr, local, result, resp, pre, lastRevoked, cv>>

\* RateLimitByIP: the handler, lines 212-240.
RateLimitByIP ==
  /\ rl.variant = "RateLimitByIP"
  /\ \E r \in RateRequests : rl' = LimitByKey(r, getClientIP(r))
  /\ RateUnchanged

\* RateLimitByToken: the handler, lines 263-296.
RateLimitByToken ==
  /\ rl.variant = "RateLimitByToken"
  /\ \E r \in RateRequests :
       LET token == getTokenFromRequest(r) IN
       rl' = IF token = <<>> THEN PassOn(r) ELSE LimitByKey(r, token)
  /\ RateUnchanged

\* RateLimitByUserID: the handler, lines 319-352.
RateLimitByUserID ==
  /\ rl.variant = "RateLimitByUserID"
  /\ \E r \in RateRequests :
       LET userID == getUserIDFromJWT(r) IN
       rl' = IF userID.err = Panic THEN PanicOn(r)
             ELSE IF userID.value = <<>> THEN PassOn(r)
             ELSE LimitByKey(r, <<"u", "s", "e", "r", ":">> \o userID.value)
  /\ RateUnchanged

\* Time passes: every bucket that is not full gains a token.
RateRefill ==
  /\ rl.variant \in RateLimitVariants
  /\ \E k \in DOMAIN rl.limiters : rl.limiters[k] < RateBurst
  /\ LET lims == [k \in DOMAIN rl.limiters |->
                    IF rl.limiters[k] < RateBurst THEN rl.limiters[k] + 1 ELSE rl.limiters[k]]
     IN  rl' = [rl EXCEPT !.limiters = lims,
                          !.hist = [k \in DOMAIN lims |->
                                      IF lims[k] = RateBurst THEN 0 ELSE Refilled],
                          !.req = NoRequest, !.key = <<>>, !.limited = FALSE,
                          !.resp = NoRateResp,
                          !.before = [limiters |-> NoLimiters, hist |-> NoLimiters]]
  /\ RateUnchanged

\* rateLimiter.cleanup, run by the ticker goroutine.
RateCleanup ==
  /\ rl.variant \in RateLimitVariants
  /\ Cardinality(DOMAIN rl.limiters) > CleanupThreshold
  /\ rl' = [rl EXCEPT !.limiters = NoLimiters, !.hist = NoLimiters,
                      !.req = NoRequest, !.key = <<>>, !.limited = FALSE,
                      !.resp = NoRateResp,
                      !.before = [limiters |-> NoLimiters, hist |-> NoLimiters]]
  /\ RateUnchanged

\* strings.Split(s, c) for a one-character separator c: the pieces between the
\* separators, empty pieces included.
Split(s, c) ==
  LET P == {i \in 1..Len(s) : s[i] = c}
      n == Cardinality(P)
      pos(k) == IF k = 0 THEN 0
                ELSE IF k = n + 1 THEN Len(s) + 1
                ELSE CHOOSE i \in P : Cardinality({j \in P : j < i}) = k - 1
  IN  [k \in 1..(n + 1) |-> SubSeq(s, pos(k - 1) + 1, pos(k) - 1)]

\* JWTRequestEnricher(fieldName, claim): the handler on one request.  ctx is
\* the value under contextKey(fieldName) of the request handed to next,
\* nextCalls the number of calls of next.ServeHTTP.
JWTRequestEnricher ==
  /\ rl.variant = "JWTRequestEnricher"
  /\ \E claim \in {"sub", "uid"},
        h \in {NoHeader, BasicHeader, LoneBearer, Bearer(<<>>), SpacedBearer(J("1")),
               Bearer(J("1")) \o <<" ">>, <<"b", "E", "A", "R", "E", "R", " ">> \o J("2")}
                \cup {Bearer(J(x)) : x \in {"1", "2", "3", "4", "5", "6", "7"}} :
       LET r == Request(<<>>, <<>>, <<>>, <<"a", ":", "1">>, h)
           authParts == Split(h, " ")
           got == getClaimFromJWT(authParts[2], claim)
           passed == [rl EXCEPT !.req = r, !.claim = claim, !.nextCalls = 1,
                                !.ctx = [set |-> FALSE, value |-> <<>>],
                                !.resp = [NoRateResp EXCEPT !.nextCalled = TRUE]]
       IN  rl' = IF Len(h) = 0 THEN passed
                 ELSE IF Len(authParts) # 2 THEN passed
                 ELSE IF ToLower(authParts[1]) # S_bearer THEN passed
                 ELSE IF got.err = Panic
                 THEN [rl EXCEPT !.req = r, !.claim = claim, !.nextCalls = 0,
                                 !.ctx = [set |-> FALSE, value |-> <<>>],
                                 !.resp = [NoRateResp EXCEPT !.panicked = TRUE]]
                 ELSE IF got.err # Nil THEN passed
                 ELSE [passed EXCEPT !.ctx = [set |-> TRUE, value |-> got.value]]
  /\ RateUnchanged

NextRate ==
  \/ RateLimitByIP
  \/ RateLimitByToken
  \/ RateLimitByUserID
  \/ JWTRequestEnricher
  \/ RateRefill
  \/ RateCleanup

SpecRate == InitRate /\ [][NextRate]_vars

\* ------- SpecLimiter: getLimiter and cleanup of one rateLimiter, run concurrently
\* The keys requests come with: one more than cleanup tolerates.
LimiterKeys == 1..(CleanupThreshold + 1)
\* The model stops creating limiters at this number of rate.Limiter objects.
MaxLimiters == CleanupThreshold + 2

\* newRateLimiter: limiters maps a key to a *rate.Limiter, heap holds the
\* tokens of every rate.Limiter made so far (a pointer is an index of heap),
\* mu is rl.mu, g the goroutines.  made is history: the number of limiters
\* made for a key since the current map was made.
InitLimiter ==
  /\ now = 1
  /\ jwksKeys = {"k1"}
  /\ revokedTokens = [x \in {} |-> 0]
  /\ revokedMutex = Unlocked
  /\ tokenCache = [x \in {} |-> NoEntry]
  /\ tokenCacheMutex = Unlocked
  /\ pc = [p \in Procs |-> "idle"]
  /\ op = [p \in Procs |-> None]
  /\ hdr = [p \in Procs |-> NoHeader]
  /\ local = [p \in Procs |-> NoLocal]
  /\ result = [p \in Procs |-> NoResult]
  /\ resp = [p \in Procs |-> NoResp]
  /\ pre = [p \in Procs |-> NoPre]
  /\ lastRevoked = [x \in {} |-> 0]
  /\ cv = CvIdle
  /\ rl = [variant |-> "rateLimiter", limiters |-> NoLimiters, heap |-> <<>>,
           made |-> [k \in LimiterKeys |-> 0], mu |-> Unlocked,
           g |-> [p \in Procs |-> [pc |-> "idle", op |-> None, key |-> 0,
                                   exists |-> FALSE, len |-> 0, got |-> 0]]]

\* A goroutine starts a handler (getLimiter(key), then Allow on the limiter it
\* got) or a run of cleanup.  The code treats all keys alike, so a key that is
\* new to the map and to the running handlers is taken to be the smallest
\* such key.
LimiterCall(p) ==
  /\ rl.variant = "rateLimiter"
  /\ rl.g[p].pc = "idle"
  /\ \/ \E key \in LimiterKeys :
          /\ LET known == DOMAIN rl.limiters \cup {rl.g[q].key : q \in Procs}
             IN  key \in known \/ \A k \in LimiterKeys \ known : key <= k
          /\ rl' = [rl EXCEPT !.g[p] = [pc |-> "lock", op |-> "getLimiter", key |-> key,
                                     exists |-> FALSE, len |-> 0, got |-> 0]]
     \/ rl' = [rl EXCEPT !.g[p] = [pc |-> "lock", op |-> "cleanup", key |-> 0,
                                   exists |-> FALSE, len |-> 0, got |-> 0]]
  /\ RateUnchanged

\* A plausible slip: the map is read and written without holding rl.mu.
LimiterLockNoMutex(p) ==
  /\ rl.variant = "rateLimiter"
  /\ rl.g[p].pc = "lock"
  /\ rl' = [rl EXCEPT !.g[p].pc = "store",
                      !.g[p].exists = rl.g[p].key \in DOMAIN rl.limiters,
                      !.g[p].got = IF rl.g[p].key \in DOMAIN rl.limiters
                                   THEN rl.limiters[rl.g[p].key] ELSE 0,
                      !.g[p].len = Cardinality(DOMAIN rl.limiters)]
  /\ RateUnchanged

\* getLimiter, lines 171-174, and cleanup, lines 185-189: rl.mu.Lock(), then the
\* lookup of the key, or len(rl.limiters).
LimiterLock(p) ==
  /\ rl.variant = "rateLimiter"
  /\ rl.g[p].pc = "lock"
  /\ CanLock(rl.mu)
  /\ rl' = [rl EXCEPT !.mu = Lock(rl.mu, p),
                      !.g[p].pc = "store",
                      !.g[p].exists = rl.g[p].key \in DOMAIN rl.limiters,
                      !.g[p].got = IF rl.g[p].key \in DOMAIN rl.limiters
                                   THEN rl.limiters[rl.g[p].key] ELSE 0,
                      !.g[p].len = Cardinality(DOMAIN rl.limiters)]
  /\ RateUnchanged

\* getLimiter, lines 175-178: a key without limiter gets a new one with a full
\* bucket; cleanup, lines 189-191: above the threshold the map is replaced.
LimiterStore(p) ==
  /\ rl.variant = "rateLimiter"
  /\ rl.g[p].pc = "store"
  /\ IF rl.g[p].op = "cleanup"
     THEN rl' = IF rl.g[p].len > CleanupThreshold
                THEN [rl EXCEPT !.limiters = NoLimiters,
                                !.made = [k \in LimiterKeys |-> 0],
                                !.g[p].pc = "unlock"]
                ELSE [rl EXCEPT !.g[p].pc = "unlock"]
     ELSE IF rl.g[p].exists
     THEN rl' = [rl EXCEPT !.g[p].pc = "unlock"]
     ELSE /\ Len(rl.heap) < MaxLimiters
          /\ rl' = [rl EXCEPT !.heap = Append(rl.heap, RateBurst),
                              !.limiters = Store(rl.limiters, rl.g[p].key, Len(rl.heap) + 1),
                              !.made[rl.g[p].key] = @ + 1,
                              !.g[p].got = Len(rl.heap) + 1,
                              !.g[p].pc = "unlock"]
  /\ RateUnchanged

\* The deferred rl.mu.Unlock(); getLimiter returns its limiter to the handler.
LimiterUnlock(p) ==
  /\ rl.variant = "rateLimiter"
  /\ rl.g[p].pc = "unlock"
  /\ rl' = [rl EXCEPT !.mu = Unlock(rl.mu),
                      !.g[p] = IF rl.g[p].op = "getLimiter"
                               THEN [@ EXCEPT !.pc = "allow"]
                               ELSE [pc |-> "idle", op |-> None, key |-> 0,
                                     exists |-> FALSE, len |-> 0, got |-> 0]]
  /\ RateUnchanged

\* The handler calls Allow on the limiter it got, line 220.
LimiterAllow(p) ==
  /\ rl.variant = "rateLimiter"
  /\ rl.g[p].pc = "allow"
  /\ rl' = [rl EXCEPT !.heap[rl.g[p].got] = IF Allow(@) THEN @ - 1 ELSE @,
                      !.g[p] = [pc |-> "idle", op |-> None, key |-> 0,
                                exists |-> FALSE, len |-> 0, got |-> 0]]
  /\ RateUnchanged

NextLimiter ==
  \E p \in Procs :
    \/ LimiterCall(p)
    \/ LimiterLock(p)
    \/ LimiterStore(p)
    \/ LimiterUnlock(p)
    \/ LimiterAllow(p)

SpecLimiter == InitLimiter /\ [][NextLimiter]_vars

\* =================================================================== the claims
\* The token of p's request, and whether p's ValidateRequest has returned.
TokenOf(p) == extractToken(hdr[p])
Returned(p) == op[p] \in ValidateOps /\ pc[p] \in {"respond", "done"}
HasToken(p) == TokenOf(p) # <<>>

\* A revocation record written at time `at` exists and is within the retention.
RevocationLive(at) == at # ZeroTime /\ now - at <= RevocationRetention

\* The cache entry e is within its TTL and its token's expiry.
CacheLive(e) ==
  /\ e # NoEntry
  /\ now <= e.Validated + cacheTTL
  /\ (e.ExpiresAt = ZeroTime \/ now <= e.ExpiresAt)

\* The token's signature verifies with a key the resolver returns.
SigVerifies(tok) ==
  LET tk == Decode(tok) IN
  tk.wellFormed /\ tk.alg \in allowedAlgs.v /\ tk.kid \in jwksKeys /\ tk.sigOK

\* aud is the client id, optionally prefixed with "api://".
AudMatches(claims) ==
  /\ Has(claims, "aud")
  /\ claims["aud"].t = "string"
  /\ (claims["aud"].s = clientID \/ claims["aud"].s = S_api \o clientID)

\* s holds sub as a substring: s = u \o sub \o v for some u and v.
IsSubstring(sub, s) ==
  \E i \in 0..Len(s) : \E j \in i..Len(s) : SubSeq(s, i + 1, j) = sub

ScpContains(claims) ==
  /\ Has(claims, "scp")
  /\ claims["scp"].t = "string"
  /\ IsSubstring(scope, claims["scp"].s)

ExpInFuture(claims) == IsFloat(claims, "exp") /\ claims["exp"].n > now

\* C1: a ValidateRequest for a token whose revocation record exists and is not
\* older than 24 hours returns Valid=false with TOKEN_REVOKED, and the cache is
\* not consulted for it, whether or not it holds a live entry for the token.
C1_RevokedRejected ==
  \A p \in Procs :
    (Returned(p) /\ HasToken(p) /\ RevocationLive(pre[p].revokedAt))
      => /\ ~result[p].Valid
         /\ result[p].ErrorCode = "TOKEN_REVOKED"
         /\ ~local[p].cacheRead

\* C1's case: a revoked token with a live cache entry has been rejected.
C1_Witness ==
  \E p \in Procs :
    /\ Returned(p) /\ HasToken(p)
    /\ RevocationLive(pre[p].revokedAt)
    /\ CacheLive(pre[p].cached)
    /\ result[p].ErrorCode = "TOKEN_REVOKED"

\* C2: a ValidateRequest for token t that begins after a RevokeToken(t) has
\* completed (and within the 24 hours of that revocation) returns TOKEN_REVOKED,
\* in every interleaving with other calls.
C2_RevokeObserved ==
  \A p \in Procs :
    (Returned(p) /\ HasToken(p) /\ RevocationLive(pre[p].lastRevoked))
      => result[p].ErrorCode = "TOKEN_REVOKED"

\* C3 as stated: every non-revoked token whose signature verifies, whose aud
\* matches, whose scp contains the scope and whose exp is in the future is
\* accepted with its claims.
C3_Original ==
  \A p \in Procs :
    LET claims == Decode(TokenOf(p)).claims IN
    (/\ Returned(p) /\ HasToken(p)
     /\ ~RevocationLive(pre[p].revokedAt)
     /\ SigVerifies(TokenOf(p))
     /\ AudMatches(claims) /\ ScpContains(claims) /\ ExpInFuture(claims))
      => result[p].Valid /\ result[p].Claims = claims

\* nbf, when present, is a number not in the future; iat, when it is a number,
\* is at most the tolerated skew ahead.
NbfIatPass(claims) ==
  /\ Has(claims, "nbf") => (IsFloat(claims, "nbf") /\ claims["nbf"].n <= now)
  /\ IsFloat(claims, "iat") => claims["iat"].n <= now + IatSkew

\* C3, amended: as C3, for the tokens whose nbf and iat pass as well.
C3_ValidAccepted ==
  \A p \in Procs :
    LET claims == Decode(TokenOf(p)).claims IN
    (/\ Returned(p) /\ HasToken(p)
     /\ ~RevocationLive(pre[p].revokedAt)
     /\ SigVerifies(TokenOf(p))
     /\ AudMatches(claims) /\ ScpContains(claims) /\ ExpInFuture(claims)
     /\ NbfIatPass(claims))
      => result[p].Valid /\ result[p].Claims = claims

\* C3's case: such a token, not in the cache before, went through the whole
\* validation and was accepted.
C3_Witness ==
  \E p \in Procs :
    LET claims == Decode(TokenOf(p)).claims IN
    /\ Returned(p) /\ HasToken(p)
    /\ ~RevocationLive(pre[p].revokedAt)
    /\ SigVerifies(TokenOf(p))
    /\ AudMatches(claims) /\ ScpContains(claims) /\ ExpInFuture(claims)
    /\ NbfIatPass(claims)
    /\ pre[p].cached = NoEntry
    /\ local[p].parsed
    /\ result[p].Valid

\* C4: for a token whose signature verifies, whatever the types of its claim
\* values, ValidateRequest returns a ValidationResult; it never panics.
C4_NeverPanics ==
  \A p \in Procs :
    (op[p] \in ValidateOps /\ HasToken(p) /\ SigVerifies(TokenOf(p)))
      => pc[p] # "panicked"

\* C5: a non-revoked, uncached token with a valid signature whose exp is earlier
\* than now is rejected with INVALID_CLAIMS, and no cache entry is created.
C5_ExpiredInvalidClaims ==
  \A p \in Procs :
    LET claims == Decode(TokenOf(p)).claims IN
    (/\ Returned(p) /\ HasToken(p)
     /\ ~RevocationLive(pre[p].revokedAt)
     /\ pre[p].cached = NoEntry
     /\ SigVerifies(TokenOf(p))
     /\ IsFloat(claims, "exp") /\ claims["exp"].n < now)
      => /\ ~result[p].Valid
         /\ result[p].ErrorCode = "INVALID_CLAIMS"
         /\ TokenOf(p) \notin DOMAIN tokenCache

\* C6: audience validation accepts a claim set if and only if aud is present
\* and, with one leading "api://" removed if there is one, equals the client id;
\* a missing aud and every other value are rejected with an error.
C6_Audience ==
  (cv.fn = "validateAudience" /\ cv.out # "pending")
    => LET has == Has(cv.claims, "aud")
           aud == cv.claims["aud"]
       IN  /\ cv.out = Nil
                <=> /\ has
                    /\ aud.t = "string"
                    /\ \/ aud.s = S_api \o cv.clientID
                       \/ aud.s = cv.clientID /\ ~HasPrefix(aud.s, S_api)
           /\ ~has => cv.out = "missing audience claim"
           /\ (has /\ cv.out # Nil) => cv.out = "invalid audience"

\* C6, for the claim sets whose aud is absent or a string: what the check does
\* with them is what C6 says.
C6_AudienceOfStrings ==
  (/\ cv.fn = "validateAudience" /\ cv.out # "pending"
   /\ Has(cv.claims, "aud") => cv.claims["aud"].t = "string")
    => C6_Audience

\* C7: with a required scope, a claim set passes if and only if scp is present
\* and holds the required scope as a substring, and a missing scp is rejected;
\* with no required scope every claim set passes and scp is not examined.
C7_Scope ==
  (cv.fn = "validateScope" /\ cv.out # "pending")
    => LET has == Has(cv.claims, "scp")
           scp == cv.claims["scp"]
       IN  IF cv.scope = <<>>
           THEN cv.out = Nil
           ELSE /\ cv.out = Nil
                     <=> (has /\ scp.t = "string" /\ IsSubstring(cv.scope, scp.s))
                /\ ~has => cv.out = "missing scope claim"
                /\ (has /\ scp.t = "string" /\ cv.out # Nil) => cv.out = "insufficient scope"

\* C7's case: a scp that holds the required scope inside a longer string passed.
C7_Witness ==
  /\ cv.fn = "validateScope"
  /\ cv.scope # <<>>
  /\ cv.out = Nil
  /\ Has(cv.claims, "scp")
  /\ ~HasPrefix(cv.claims["scp"].s, cv.scope)

\* C8: Middleware and Protect call the wrapped handler, with the claims in the
\* request context, exactly when ValidateRequest returned Valid=true; for every
\* Valid=false result (MISSING_TOKEN for a request without Authorization header)
\* they answer 401 with WWW-Authenticate: Bearer error="<ErrorCode>" and a body
\* with the message and the code, and the handler is not called.
C8_Wrappers ==
  \A p \in Procs :
    op[p] \in {"Middleware", "Protect"}
      => /\ resp[p].nextCalled => (pc[p] = "done" /\ result[p].Valid)
         /\ (pc[p] = "done" /\ result[p].Valid)
              => /\ resp[p].nextCalled
                 /\ resp[p].ctxClaims = result[p].Claims
                 /\ resp[p].status = 0
         /\ (pc[p] = "done" /\ ~result[p].Valid)
              => /\ resp[p].status = 401
                 /\ resp[p].wwwAuthenticate = <<"Bearer error=\"", result[p].ErrorCode, "\"">>
                 /\ resp[p].body = [error |-> result[p].Error, code |-> result[p].ErrorCode]
                 /\ ~resp[p].nextCalled
         /\ (pc[p] = "done" /\ hdr[p] = NoHeader) => result[p].ErrorCode = "MISSING_TOKEN"

\* C8's case: a request without Authorization header was answered 401 by a wrapper.
C8_Witness ==
  \E p \in Procs :
    /\ op[p] \in {"Middleware", "Protect"}
    /\ pc[p] = "done"
    /\ hdr[p] = NoHeader
    /\ resp[p].status = 401
    /\ ~resp[p].nextCalled

\* C9: when a non-revoked token has a live cache entry, ValidateRequest returns
\* Valid=true with exactly the cached claims, and runs neither the signature
\* verification (no key-resolver call) nor the claim validation; the cache is
\* left as it was.
C9_CacheHit ==
  \A p \in Procs :
    (/\ Returned(p) /\ HasToken(p)
     /\ ~RevocationLive(pre[p].revokedAt)
     /\ CacheLive(pre[p].cached))
      => /\ result[p].Valid
         /\ result[p].Claims = pre[p].cached.Claims
         /\ ~local[p].parsed
         /\ ~local[p].keyfunc
         /\ Lookup(tokenCache, TokenOf(p), NoEntry) = pre[p].cached

\* C9's case: a hit at a moment where the key resolver would not return the key.
C9_Witness ==
  \E p \in Procs :
    /\ Returned(p) /\ HasToken(p)
    /\ ~RevocationLive(pre[p].revokedAt)
    /\ CacheLive(pre[p].cached)
    /\ ~SigVerifies(TokenOf(p))
    /\ result[p].Valid

\* C10: the cache lookup is a hit only while neither validation time + TTL nor
\* the token's exp, when it has one, is in the past; otherwise it is a miss and
\* ValidateRequest goes on to the full validation, so no token is accepted from
\* the cache after its exp.
C10_CacheExpiry ==
  \A p \in Procs :
    (Returned(p) /\ local[p].cacheRead)
      => LET e == pre[p].cached
             claims == Decode(TokenOf(p)).claims
             hit == local[p].cached # NoEntry
         IN  /\ hit <=> /\ e # NoEntry
                        /\ now <= e.Validated + cacheTTL
                        /\ IsFloat(claims, "exp") => now <= claims["exp"].n
             /\ hit => (result[p].Valid /\ ~local[p].parsed)
             /\ ~hit => local[p].parsed

\* C10's case: an entry still within its TTL, of a token past its exp, was a
\* miss and the token went to the full validation.
C10_Witness ==
  \E p \in Procs :
    LET e == pre[p].cached
        claims == Decode(TokenOf(p)).claims
    IN  /\ Returned(p) /\ local[p].cacheRead
        /\ e # NoEntry
        /\ now <= e.Validated + cacheTTL
        /\ IsFloat(claims, "exp") /\ now > claims["exp"].n
        /\ local[p].cached = NoEntry
        /\ local[p].parsed
        /\ ~result[p].Valid

\* The revocation map with token tok recorded as revoked at time t.
RevokedAs(m, tok, t) == [x \in DOMAIN m \cup {tok} |-> IF x = tok THEN t ELSE m[x]]

IsTokenRevokedAnswer(p) ==
  LET tok == local[p].tokenString
      at == pre[p].revokedAt
  IN  /\ at = ZeroTime
           => (~local[p].revoked /\ tok \notin DOMAIN revokedTokens)
      /\ (at # ZeroTime /\ now - at <= RevocationRetention)
           => (local[p].revoked /\ Lookup(revokedTokens, tok, ZeroTime) = at)
      /\ (at # ZeroTime /\ now - at > RevocationRetention)
           => (~local[p].revoked /\ tok \notin DOMAIN revokedTokens)
      /\ pre[p].lastRevoked = now => local[p].revoked

\* C12: isTokenRevoked(t) answers false when t has no record, true when its
\* record is at most 24 hours old (so right after RevokeToken), and false with
\* the record removed when it is older; no step of the call changes the record
\* of another token.
C12_IsTokenRevoked ==
  /\ [](\A p \in Procs :
          (op[p] = "isTokenRevoked" /\ pc[p] = "done") => IsTokenRevokedAnswer(p))
  /\ [][\A p \in Procs :
          (op[p] = "isTokenRevoked" /\ pc'[p] # pc[p])
            => \A k \in (DOMAIN revokedTokens \cup DOMAIN revokedTokens') \ {local[p].tokenString} :
                 /\ k \in DOMAIN revokedTokens /\ k \in DOMAIN revokedTokens'
                 /\ revokedTokens'[k] = revokedTokens[k]
      ]_vars

\* C12's case: a record older than 24 hours was removed and the answer was
\* false, while the record of another token stayed.
C12_Witness ==
  \E p \in Procs :
    /\ op[p] = "isTokenRevoked" /\ pc[p] = "done"
    /\ pre[p].revokedAt # ZeroTime
    /\ now - pre[p].revokedAt > RevocationRetention
    /\ ~local[p].revoked
    /\ local[p].tokenString \notin DOMAIN revokedTokens
    /\ DOMAIN revokedTokens # {}

\* No RevokeToken has ever recorded the token.
NeverRevoked(tok) == tok \notin DOMAIN revokedTokens /\ tok \notin DOMAIN lastRevoked

\* The token passes every check of the validation at the present time.
ValidNow(tok) ==
  LET claims == Decode(tok).claims IN
  /\ SigVerifies(tok)
  /\ AudMatches(claims) /\ ScpContains(claims) /\ NbfIatPass(claims)
  /\ Has(claims, "exp") => ExpInFuture(claims)

\* C13: ValidateRequest calls that run concurrently for one valid, never-revoked
\* token all return Valid=true with the token's claims, whichever of them hit
\* or miss the cache; once one has returned, the cache holds the token's entry
\* with those claims, written by the last of the calls that stored.
C13_ConcurrentValidations ==
  \A p \in Procs :
    LET tok == TokenOf(p)
        claims == Decode(tok).claims
    IN  (/\ Returned(p) /\ HasToken(p)
         /\ NeverRevoked(tok) /\ ValidNow(tok))
          => /\ result[p].Valid
             /\ result[p].Claims = claims
             /\ \A q \in Procs :
                  (Returned(q) /\ TokenOf(q) = tok) => result[q] = result[p]
             /\ tok \in DOMAIN tokenCache
             /\ tokenCache[tok].Claims = claims
             /\ tokenCache[tok].Validated \in 1..now

\* C13's case: two concurrent calls for the token both missed the cache, both
\* verified and stored, and both returned Valid=true.
C13_Witness ==
  \E p, q \in Procs :
    /\ p # q
    /\ TokenOf(p) = TokenOf(q)
    /\ Returned(p) /\ Returned(q) /\ HasToken(p)
    /\ NeverRevoked(TokenOf(p))
    /\ local[p].parsed /\ local[q].parsed
    /\ pre[p].cached = NoEntry /\ pre[q].cached = NoEntry
    /\ result[p].Valid /\ result[q].Valid
    /\ TokenOf(p) \in DOMAIN tokenCache

\* The read and write locks goroutine p holds.
HoldsR(m, p) == p \in m.r
HoldsW(m, p) == m.w = p

\* Where p is about to take a write lock it holds no read lock of that mutex,
\* a held lock is released exactly where p holds it, and p holds nothing
\* outside a call and after it returned.
LockDiscipline ==
  \A p \in Procs :
    /\ pc[p] \in {"purgeLock", "RevokeToken"} => ~HoldsR(revokedMutex, p)
    /\ pc[p] = "cacheToken" => ~HoldsR(tokenCacheMutex, p)
    /\ HoldsW(revokedMutex, p) => revokedMutex.r = {}
    /\ HoldsW(tokenCacheMutex, p) => tokenCacheMutex.r = {}
    /\ HoldsR(revokedMutex, p) <=> pc[p] \in {"purgeRUnlock", "revokedRUnlock"}
    /\ HoldsW(revokedMutex, p) <=> pc[p] \in {"purgeUnlock", "revokeUnlock"}
    /\ HoldsR(tokenCacheMutex, p) <=> pc[p] = "cacheRUnlock"
    /\ HoldsW(tokenCacheMutex, p) <=> pc[p] = "cacheUnlock"

\* C14: no operation takes the write lock of the revocation map or of the cache
\* while it holds that structure's read lock, every lock taken is released once
\* before the operation returns, and under fair scheduling every call of a
\* concurrent mix of validations, isTokenRevoked and RevokeToken calls returns.
C14_LockDiscipline ==
  /\ []LockDiscipline
  /\ \A p \in Procs :
       (pc[p] \notin {"idle", "done", "panicked"}) ~> (pc[p] \in {"done", "panicked"})

\* C14's case: a purge holds the write lock, having given up its read lock,
\* while a concurrent RevokeToken waits for the same lock.
C14_Witness ==
  \E p, q \in Procs :
    /\ pc[p] = "purgeUnlock" /\ HoldsW(revokedMutex, p) /\ ~HoldsR(revokedMutex, p)
    /\ pc[q] = "RevokeToken" /\ ~CanLock(revokedMutex)

\* C15: whatever the configuration the validator was built from, a well-formed
\* token signed with an algorithm that is not in its allowed-algorithm list is
\* rejected with INVALID_TOKEN and is not cached.
C15_AlgAllowList ==
  (/\ cv.fn = "NewJWTValidator" /\ cv.stage = "validated"
   /\ Decode(cv.tok).wellFormed
   /\ Decode(cv.tok).alg \notin cv.out.v.allowedAlgs.v)
    => /\ ~cv.val.res.Valid
       /\ cv.val.res.ErrorCode = "INVALID_TOKEN"
       /\ ~cv.val.cached

\* C15, for the validators whose configuration gives an allow-list (the
\* defaults, or any list that is not nil): there the allow-list is enforced.
C15_AlgAllowListGiven ==
  (cv.fn = "NewJWTValidator" /\ cv.stage = "validated" /\ ~cv.out.v.allowedAlgs.isNil)
    => C15_AlgAllowList

\* p's request carried a token that was not revoked and not in the cache (no
\* live entry) when the call began, and whose signature cannot be verified:
\* malformed, signed with a method outside the list, no key for its kid, or a
\* signature that does not match.
UnverifiableRequest(p) ==
  /\ Returned(p) /\ HasToken(p)
  /\ ~RevocationLive(pre[p].revokedAt)
  /\ ~CacheLive(pre[p].cached)
  /\ ~SigVerifies(TokenOf(p))

\* C16 as stated: every such request returns Valid=false with INVALID_TOKEN,
\* and the cache and the revocation map are as they were before the call.
C16_Original ==
  \A p \in Procs :
    UnverifiableRequest(p)
      => /\ ~result[p].Valid
         /\ result[p].ErrorCode = "INVALID_TOKEN"
         /\ Lookup(tokenCache, TokenOf(p), NoEntry) = pre[p].cached
         /\ Lookup(revokedTokens, TokenOf(p), ZeroTime) = pre[p].revokedAt

\* C16, amended: every such request returns Valid=false with INVALID_TOKEN,
\* whatever the cause (no other code for a resolver failure); the cache is as it
\* was, and so is the revocation map, except that a record of the token that
\* was older than 24 hours has been removed by the revocation check.
C16_InvalidToken ==
  \A p \in Procs :
    UnverifiableRequest(p)
      => /\ ~result[p].Valid
         /\ result[p].ErrorCode = "INVALID_TOKEN"
         /\ Lookup(tokenCache, TokenOf(p), NoEntry) = pre[p].cached
         /\ Lookup(revokedTokens, TokenOf(p), ZeroTime)
              = IF pre[p].revokedAt # ZeroTime /\ now - pre[p].revokedAt > RevocationRetention
                THEN ZeroTime ELSE pre[p].revokedAt

\* C16's case: the key resolver was called and had no key for the token's kid.
C16_Witness ==
  \E p \in Procs :
    /\ UnverifiableRequest(p)
    /\ Decode(TokenOf(p)).wellFormed
    /\ Decode(TokenOf(p)).alg \in allowedAlgs.v
    /\ Decode(TokenOf(p)).kid \notin jwksKeys
    /\ local[p].keyfunc
    /\ result[p].ErrorCode = "INVALID_TOKEN"

\* A configuration with the required client id and key source, allowedAlgs and
\* cacheTTL left unset, from which the validator has been constructed.
UnsetOptionsConstructed ==
  /\ cv.fn = "NewJWTValidator" /\ cv.stage # "input"
  /\ ~cv.config.isNil
  /\ cv.config.ClientID # <<>> /\ cv.config.JWKSURL # <<>> /\ cv.reachable
  /\ cv.config.AllowedAlgs.isNil
  /\ cv.config.CacheTTL = 0

\* C17: such a validator runs with the defaults: the allow-list of RS256, RS384,
\* RS512, ES256, ES384, ES512 and the default cache TTL, so that an entry
\* validated a moment ago (the clock has moved on by one unit) is still a hit.
C17_Defaults ==
  UnsetOptionsConstructed
    => /\ cv.out.err = Nil
       /\ cv.out.v.allowedAlgs = Slice({"RS256", "RS384", "RS512", "ES256", "ES384", "ES512"})
       /\ cv.out.v.cacheTTL = DefaultJWTConfig.CacheTTL
       /\ ~((now + 1) > now + cv.out.v.cacheTTL)

\* s[i..j] is all white space (also when empty) / holds no white space.
AllSpace(s, i, j) == \A k \in i..j : IsSpace(s[k])
NoSpace(s, i, j) == \A k \in i..j : ~IsSpace(s[k])

\* h is white space, a field h[a..b], white space (some), a field h[c..d],
\* white space: h splits into exactly these two fields.
SplitsInTwo(h, a, b, c, d) ==
  /\ 1 <= a /\ a <= b /\ b + 1 < c /\ c <= d /\ d <= Len(h)
  /\ AllSpace(h, 1, a - 1) /\ NoSpace(h, a, b)
  /\ AllSpace(h, b + 1, c - 1) /\ NoSpace(h, c, d)
  /\ AllSpace(h, d + 1, Len(h))

\* The first field is "bearer" in any mix of upper and lower case.
IsBearerScheme(h, a, b) == ToLower(SubSeq(h, a, b)) = S_bearer

\* C18: extractToken returns a token (not the empty string) if and only if the
\* header value splits on white space into exactly two fields of which the
\* first is "bearer" in any case; the token is then the second field, without
\* white space around it; every other header value, also the missing one, a
\* lone scheme, another scheme or three fields, gives the empty string.
C18_ExtractToken ==
  (cv.fn = "extractToken" /\ cv.stage = "returned")
    => LET h == cv.header
           I == 1..Len(h)
           bearer2 == \E a, b, c, d \in I : SplitsInTwo(h, a, b, c, d) /\ IsBearerScheme(h, a, b)
       IN  /\ cv.out # <<>> <=> bearer2
           /\ \A a, b, c, d \in I :
                (SplitsInTwo(h, a, b, c, d) /\ IsBearerScheme(h, a, b))
                  => cv.out = SubSeq(h, c, d)
           /\ NoSpace(cv.out, 1, Len(cv.out))

\* C18's case: a scheme in mixed case, more than one space before the token
\* and white space after it; the token came out bare.
C18_Witness ==
  /\ cv.fn = "extractToken" /\ cv.stage = "returned"
  /\ cv.out = <<"t", "1">>
  /\ ToLower(SubSeq(cv.header, 1, 6)) = S_bearer
  /\ SubSeq(cv.header, 1, 6) \notin {S_bearer, <<"B", "e", "a", "r", "e", "r">>}
  /\ Len(cv.header) > 6 + 1 + 2
  /\ IsSpace(cv.header[Len(cv.header)])

\* The claim at position i of sub, user_id, uid, userid is a non-empty string.
NonEmptyStringAt(claims, i) ==
  LET k == userIDFields[i] IN
  k \in DOMAIN claims /\ claims[k].t = "string" /\ claims[k].s # <<>>

\* C19: GetUserIDFromContext returns (id, true) with id the value of the first
\* of sub, user_id, uid, userid that is a non-empty string, skipping the ones
\* before it that are absent, empty or not strings; it returns ("", false) when
\* there is none or the context holds no claims.
C19_GetUserID ==
  (cv.fn = "GetUserIDFromContext" /\ cv.stage = "returned")
    => LET claims == cv.ctx.claims
           I == 1..Len(userIDFields)
           found == cv.ctx.kind = "claims" /\ \E i \in I : NonEmptyStringAt(claims, i)
       IN  /\ cv.out.ok <=> found
           /\ ~found => cv.out.id = <<>>
           /\ found => \E i \in I :
                         /\ NonEmptyStringAt(claims, i)
                         /\ \A j \in 1..(i - 1) : ~NonEmptyStringAt(claims, j)
                         /\ cv.out.id = claims[userIDFields[i]].s

\* C19's case: sub is empty, user_id is a number, uid and userid are different
\* names; the answer is uid's.
C19_Witness ==
  /\ cv.fn = "GetUserIDFromContext" /\ cv.stage = "returned"
  /\ cv.ctx.kind = "claims"
  /\ DOMAIN cv.ctx.claims = UserIDFieldSet
  /\ cv.ctx.claims["sub"] = Str(<<>>)
  /\ cv.ctx.claims["user_id"].t = "float64"
  /\ cv.ctx.claims["uid"] # cv.ctx.claims["userid"]
  /\ cv.out = [id |-> cv.ctx.claims["uid"].s, ok |-> TRUE]

\* Before the request the key's limiter had let pass its whole burst since its
\* bucket was full, and no time had refilled it.
BurstUsedUp(k) == k \in DOMAIN rl.before.hist /\ rl.before.hist[k] = RateBurst

\* Before the request the key had no limiter yet, or one with burst left.
BurstLeft(k) ==
  k \notin DOMAIN rl.before.hist \/ rl.before.hist[k] \in 0..(RateBurst - 1)

\* C20: the rate-limit middleware keeps one limiter per key.  A request for a
\* key that has used up its burst, with no refill since, gets 429 with the
\* X-RateLimit-* headers and the wrapped handler is not called; a request for a
\* key with burst left reaches the handler whatever the state of the other keys,
\* and changes no other key's limiter; with RateLimitByToken and
\* RateLimitByUserID a request without a token reaches the handler unlimited.
C20_RateLimit ==
  rl.variant \in RateLimitVariants /\ rl.resp # NoRateResp
    => /\ (rl.limited /\ BurstUsedUp(rl.key))
            => /\ rl.resp.status = 429
               /\ rl.resp.xRateLimitLimit # "" /\ rl.resp.xRateLimitRemaining = "0"
               /\ rl.resp.xRateLimitReset
               /\ ~rl.resp.nextCalled
               /\ rl.limiters = rl.before.limiters
       /\ (rl.limited /\ BurstLeft(rl.key))
            => /\ rl.resp.nextCalled
               /\ rl.resp.status # 429
       /\ rl.limited
            => /\ DOMAIN rl.limiters = DOMAIN rl.before.limiters \cup {rl.key}
               /\ \A k \in DOMAIN rl.before.limiters \ {rl.key} :
                    rl.limiters[k] = rl.before.limiters[k]
       /\ (rl.variant # "RateLimitByIP" /\ getTokenFromRequest(rl.req) = <<>>)
            => /\ rl.resp.nextCalled
               /\ ~rl.limited
               /\ rl.limiters = rl.before.limiters
       /\ rl.resp.status = 429 => rl.limited

\* C20's case: a key that used up its burst was answered 429 while another key
\* of the same middleware still has burst left.
C20_Witness ==
  /\ rl.variant \in RateLimitVariants
  /\ rl.limited /\ BurstUsedUp(rl.key)
  /\ rl.resp.status = 429
  /\ \E k \in DOMAIN rl.limiters \ {rl.key} : rl.limiters[k] >= 1

\* C21: getUserIDFromJWT returns the user id of the first of "sub", "user_id"
\* and "uid" that the payload of the bearer token has; RateLimitByUserID then
\* limits the request by the key "user:" followed by that id.
C21_UserIDFallback ==
  (rl.variant = "RateLimitByUserID" /\ rl.resp # NoRateResp)
    => LET t == Segments(getTokenFromRequest(rl.req))
           present == {i \in 1..3 : Has(t.payload, userIDFields[i])}
           first == userIDFields[CHOOSE i \in present : \A k \in present : i <= k]
       IN  (getTokenFromRequest(rl.req) # <<>> /\ t.n >= 2 /\ t.base64OK /\ t.jsonOK
              /\ present # {} /\ t.payload[first].t = "string")
             => /\ rl.limited
                /\ rl.key = <<"u", "s", "e", "r", ":">> \o t.payload[first].s

\* C22: JWTRequestEnricher passes every request on to the next handler exactly
\* once and never panics; the context field is set only when the named claim
\* was extracted from the bearer token, that is when the token's payload
\* decodes and holds the claim as a string.
C22_EnricherPassesOn ==
  (rl.variant = "JWTRequestEnricher" /\ rl.resp # NoRateResp)
    => LET h == rl.req.authorization
           parts == Split(h, " ")
           t == Segments(parts[2])
           extracted ==
             /\ h # <<>> /\ Len(parts) = 2 /\ ToLower(parts[1]) = S_bearer
             /\ t.n >= 2 /\ t.base64OK /\ t.jsonOK
             /\ Has(t.payload, rl.claim) /\ t.payload[rl.claim].t = "string"
       IN  /\ ~rl.resp.panicked
           /\ rl.nextCalls = 1
           /\ rl.ctx.set <=> extracted
           /\ extracted => rl.ctx.value = t.payload[rl.claim].s

\* The code of the earliest stage of ValidateRequest that fails for p's request,
\* "" when none fails: extraction, revocation check, cache lookup (a hit ends
\* the call with success), signature verification, claim validation.
\* parseFails tells whether the signature verification stage fails.
EarliestFailure(p, parseFails) ==
  IF ~HasToken(p) THEN "MISSING_TOKEN"
  ELSE IF RevocationLive(pre[p].revokedAt) THEN "TOKEN_REVOKED"
  ELSE IF CacheLive(pre[p].cached) THEN ""
  ELSE IF parseFails THEN "INVALID_TOKEN"
  ELSE IF validateClaims(Decode(TokenOf(p)).claims, clientID, scope, now) # Nil
  THEN "INVALID_CLAIMS"
  ELSE ""

\* What a returned ValidateRequest of p shows of the stage order, given the
\* code of the earliest failing stage: the result has that code, no stage after
\* the failing one ran, and a valid result has no code and carries the claims.
StagesInOrder(p, code) ==
  /\ result[p].ErrorCode = code
  /\ result[p].ErrorCode \in {"MISSING_TOKEN", "TOKEN_REVOKED", "INVALID_TOKEN",
                              "INVALID_CLAIMS", ""}
  /\ result[p].Valid <=> result[p].ErrorCode = ""
  /\ result[p].Valid
       => result[p].Claims = IF CacheLive(pre[p].cached) THEN pre[p].cached.Claims
                             ELSE Decode(TokenOf(p)).claims
  /\ code = "MISSING_TOKEN" => ~local[p].exists /\ ~local[p].cacheRead /\ ~local[p].parsed
  /\ code = "TOKEN_REVOKED" => ~local[p].cacheRead /\ ~local[p].parsed
  /\ CacheLive(pre[p].cached) /\ result[p].Valid => ~local[p].parsed
  /\ ~result[p].Valid => TokenOf(p) \notin DOMAIN tokenCache \/ tokenCache[TokenOf(p)] = pre[p].cached

\* C23: ValidateRequest runs extract, revocation check, cache lookup, signature
\* verification, claim validation, cache store in this order and returns at the
\* first stage that fails: the ErrorCode of a Valid=false result is the code of
\* the earliest failing stage, one of the four codes, and a Valid=true result
\* has an empty ErrorCode and carries the claims.
C23_StageOrder ==
  \A p \in Procs :
    Returned(p) => StagesInOrder(p, EarliestFailure(p, ~SigVerifies(TokenOf(p))))

\* C23 with the signature verification stage taken as the whole of jwt.Parse,
\* the parser's own exp and nbf checks included.
C23_StageOrderOfParse ==
  \A p \in Procs :
    Returned(p)
      => StagesInOrder(p, EarliestFailure(p,
                            jwtParse(TokenOf(p), jwksKeys, allowedAlgs, now).err # Nil))

\* A validator was constructed, its first request validated and the token cached.
FreshlyCached == cv.fn = "NewJWTValidator" /\ cv.stage = "validated" /\ cv.val.cached

\* C24 as stated: the ExpiresAt of a cache entry is the earlier of validation
\* time + configured cache TTL and the token's exp, and validation time + cache
\* TTL when the token has no exp.
C24_Original ==
  FreshlyCached
    => LET e == cv.val.entry
           ttlEnd == e.Validated + cv.out.v.cacheTTL
       IN  e.ExpiresAt = IF IsFloat(e.Claims, "exp") /\ e.Claims["exp"].n < ttlEnd
                         THEN e.Claims["exp"].n ELSE ttlEnd

\* C24, amended: a cache entry holds the token's claims, the time of the
\* validation in Validated, and in ExpiresAt the token's exp, or the zero time
\* when the token has no exp; the TTL is not part of ExpiresAt.  It is the
\* lookup that serves the entry up to the earlier of Validated + cache TTL and
\* exp.
C24_ExpiresAt ==
  FreshlyCached
    => LET e == cv.val.entry IN
       /\ e.Claims = Decode(cv.tok).claims
       /\ e.Validated = now
       /\ e.ExpiresAt = IF IsFloat(e.Claims, "exp") THEN e.Claims["exp"].n ELSE ZeroTime
       /\ cv.out.v.cacheTTL = cacheTTL
            => \A t \in now..(now + cacheTTL + 1) :
                 getCachedToken((cv.tok :> e), cv.tok, t) = e
                   <=> /\ t <= e.Validated + cacheTTL
                       /\ IsFloat(e.Claims, "exp") => t <= e.Claims["exp"].n

\* C24's case: a token whose exp lies after the end of the TTL has been cached.
C24_Witness ==
  /\ FreshlyCached
  /\ cv.out.v.cacheTTL = cacheTTL
  /\ IsFloat(cv.val.entry.Claims, "exp")
  /\ cv.val.entry.Claims["exp"].n > cv.val.entry.Validated + cacheTTL
  /\ cv.val.entry.ExpiresAt = cv.val.entry.Claims["exp"].n

\* C25: expired cache entries are evicted on read.  When the cache lookup of a
\* ValidateRequest found an entry whose TTL or exp had elapsed, that entry is
\* not in the cache map once the call has returned (the map has no entry for
\* the token, or a new one stored by this call).
C25_LazyEviction ==
  \A p \in Procs :
    (/\ Returned(p) /\ local[p].cacheRead
     /\ pre[p].cached # NoEntry /\ ~CacheLive(pre[p].cached))
      => \/ TokenOf(p) \notin DOMAIN tokenCache
         \/ tokenCache[TokenOf(p)] # pre[p].cached

\* The rest of C25: a lookup that did not end in a new validation leaves the
\* cache map as it was, live entries and the entries of other tokens included.
C25_LookupKeepsCache ==
  [][\A p \in Procs : pc[p] \in {"getCachedToken", "cacheRUnlock"} /\ pc'[p] # "cacheToken"
                        => tokenCache' = tokenCache]_vars

\* p's ValidateRequest has verified the signature and validated the claims of
\* its token in this call, after a revocation check and a cache lookup that
\* did not end it.
FullyValidated(p) ==
  /\ op[p] \in ValidateOps
  /\ ~local[p].revoked
  /\ local[p].cacheRead /\ local[p].cached = NoEntry
  /\ local[p].parsed
  /\ local[p].claims = Decode(local[p].tokenString).claims
  /\ jwtParse(local[p].tokenString, jwksKeys, allowedAlgs, now).err = Nil
  /\ validateClaims(local[p].claims, clientID, scope, now) = Nil

\* Every entry of the cache holds the claims of its token, and they passed the
\* time, audience and scope validation at the time the entry was stored.
CachedClaimsValidated ==
  \A tok \in DOMAIN tokenCache :
    LET e == tokenCache[tok] IN
    /\ e.Claims = Decode(tok).claims
    /\ e.Validated \in 1..now
    /\ validateClaims(e.Claims, clientID, scope, e.Validated) = Nil

\* The cache map changes only by the store of a call that has fully validated
\* its token, and that call then returns Valid=true.
OnlyValidatedStored ==
  /\ tokenCache' # tokenCache
       => \E p \in Procs :
            /\ pc[p] = "cacheToken" /\ pc'[p] = "cacheUnlock"
            /\ FullyValidated(p)
            /\ tokenCache' = Store(tokenCache, local[p].tokenString,
                                   [Claims |-> local[p].claims,
                                    ExpiresAt |-> tokenCache'[local[p].tokenString].ExpiresAt,
                                    Validated |-> now])
  /\ \A p \in Procs :
       pc[p] = "cacheUnlock" /\ pc'[p] # "cacheUnlock" => result'[p].Valid

\* C26: a cache entry is created only by a ValidateRequest whose signature
\* verification and claim validation both succeeded in that call; every entry
\* holds claims that passed validation when it was stored; calls that return
\* Valid=false, calls served from the cache and RevokeToken leave the cache
\* map unchanged.
C26_CacheCreation ==
  /\ [](CachedClaimsValidated
        /\ \A p \in Procs : pc[p] \in {"cacheToken", "cacheUnlock"} => FullyValidated(p))
  /\ [][OnlyValidatedStored]_vars

\* C26's case: a call has returned Valid=true after a full validation and its
\* entry is in the cache, while a revocation record of another token exists.
C26_Witness ==
  \E p \in Procs :
    /\ Returned(p) /\ result[p].Valid /\ local[p].parsed
    /\ TokenOf(p) \in DOMAIN tokenCache
    /\ tokenCache[TokenOf(p)].Validated = now
    /\ DOMAIN revokedTokens \ {TokenOf(p)} # {}

\* validateTimeClaims has been applied to cv.claims.
TimeChecked == cv.fn = "validateTimeClaims" /\ cv.out # "pending"

\* The three time conditions of a claim set; a value that is not a number
\* stands for no time.
IsExpired(claims) == IsFloat(claims, "exp") /\ claims["exp"].n < now
IssuedInFuture(claims) == IsFloat(claims, "iat") /\ claims["iat"].n > now + IatSkew
NotYetValid(claims) == IsFloat(claims, "nbf") /\ claims["nbf"].n > now

C28_PurgeOnlyStale ==
  [][\A tok \in DOMAIN revokedTokens :
       tok \notin DOMAIN revokedTokens' => now - revokedTokens[tok] > RevocationRetention]_vars

\* p's request carries a token whose revocation record, when the call began,
\* was older than the retention.
RevocationLapsed(p) ==
  /\ HasToken(p)
  /\ pre[p].revokedAt # ZeroTime
  /\ now - pre[p].revokedAt > RevocationRetention

\* What a returned ValidateRequest shows for a token whose revocation lapsed:
\* the record is gone, the result is not TOKEN_REVOKED, the cache was looked
\* up, and the token is accepted if it has a live entry or passes validation.
LapsedIsValidatedAgain(p) ==
  LET tok == TokenOf(p) IN
  /\ tok \notin DOMAIN revokedTokens
  /\ result[p].ErrorCode # "TOKEN_REVOKED"
  /\ local[p].cacheRead
  /\ CacheLive(pre[p].cached) => result[p].Valid /\ result[p].Claims = pre[p].cached.Claims
  /\ (/\ ~CacheLive(pre[p].cached)
      /\ jwtParse(tok, jwksKeys, allowedAlgs, now).err = Nil
      /\ validateClaims(Decode(tok).claims, clientID, scope, now) = Nil)
       => result[p].Valid /\ result[p].Claims = Decode(tok).claims

\* A revocation record is written by RevokeToken only.
OnlyRevokeTokenRevokes ==
  \A tok \in DOMAIN revokedTokens' :
    (tok \notin DOMAIN revokedTokens \/ revokedTokens'[tok] # revokedTokens[tok])
      => \E p \in Procs :
           /\ op[p] = "RevokeToken" /\ local[p].tokenString = tok
           /\ pc[p] = "RevokeToken" /\ pc'[p] = "revokeUnlock"

\* C29: revocation lapses with the retention window.  The first ValidateRequest
\* for a revoked token made more than 24 hours after its last RevokeToken
\* purges the record and does not return TOKEN_REVOKED; it goes on with the
\* cache lookup and the validation and accepts the token if that succeeds; only
\* a new RevokeToken makes the token revoked again.
C29_RevocationLapses ==
  /\ [](\A p \in Procs : Returned(p) /\ RevocationLapsed(p) => LapsedIsValidatedAgain(p))
  /\ [][OnlyRevokeTokenRevokes]_vars

\* C29's case: a token revoked more than 24 hours before has been accepted
\* again, by a full validation, and its record is purged.
C29_Witness ==
  \E p \in Procs :
    /\ Returned(p) /\ RevocationLapsed(p)
    /\ local[p].exists /\ local[p].parsed
    /\ result[p].Valid
    /\ TokenOf(p) \notin DOMAIN revokedTokens

\* The limiter map holds exactly one limiter for each key it has, made once
\* since the map was made, and no two keys share a limiter; a getLimiter that
\* is about to return holds the limiter the map has for its key.
OneLimiterPerKey ==
  /\ \A k \in LimiterKeys : rl.made[k] = IF k \in DOMAIN rl.limiters THEN 1 ELSE 0
  /\ \A j, k \in DOMAIN rl.limiters : rl.limiters[j] = rl.limiters[k] => j = k
  /\ \A p \in Procs :
       rl.g[p].pc = "unlock" /\ rl.g[p].op = "getLimiter"
         => rl.g[p].key \in DOMAIN rl.limiters /\ rl.g[p].got = rl.limiters[rl.g[p].key]

\* The steps of getLimiter and cleanup under the lock: a key that has a limiter
\* gets that same limiter and nothing changes; a key without one gets a new
\* limiter with a full bucket; cleanup leaves a map of at most the threshold
\* as it is and replaces a larger one by an empty map; nothing else changes
\* the map.
LimiterSteps ==
  /\ \A p \in Procs :
       (rl.g[p].pc = "store" /\ rl'.g[p].pc = "unlock")
         => LET key == rl.g[p].key IN
            IF rl.g[p].op = "cleanup"
            THEN /\ rl'.limiters = IF Cardinality(DOMAIN rl.limiters) > CleanupThreshold
                                   THEN NoLimiters ELSE rl.limiters
                 /\ rl'.heap = rl.heap
            ELSE IF key \in DOMAIN rl.limiters
            THEN /\ rl'.g[p].got = rl.limiters[key]
                 /\ rl'.limiters = rl.limiters /\ rl'.heap = rl.heap
            ELSE /\ rl'.g[p].got = Len(rl.heap) + 1
                 /\ rl'.heap = Append(rl.heap, RateBurst)
                 /\ rl'.limiters = Store(rl.limiters, key, Len(rl.heap) + 1)
  /\ rl'.limiters # rl.limiters
       => \E p \in Procs : rl.g[p].pc = "store" /\ rl'.g[p].pc = "unlock"

\* C30: getLimiter returns the same limiter for repeated calls with the same
\* key and creates at most one limiter per key under concurrent calls; cleanup
\* leaves the limiter map unchanged when it holds at most 1000 entries and
\* replaces it with an empty map when it holds more, after which every key
\* starts again with a fresh limiter at full burst.
C30_Limiters ==
  /\ [](rl.variant = "rateLimiter" => OneLimiterPerKey)
  /\ [][rl.variant = "rateLimiter" => LimiterSteps]_vars

\* C30's case: after a cleanup that emptied the map, a key whose limiter was
\* used up (a handler still holds that limiter) has a new limiter with a full
\* bucket in the map.
C30_Witness ==
  /\ rl.variant = "rateLimiter"
  /\ \E p \in Procs :
       /\ rl.g[p].pc = "allow"
       /\ rl.heap[rl.g[p].got] = 0
       /\ rl.g[p].key \in DOMAIN rl.limiters
       /\ rl.limiters[rl.g[p].key] # rl.g[p].got
       /\ rl.heap[rl.limiters[rl.g[p].key]] = RateBurst
====
